---- MODULE Spec2Model ----
(***************************************************************************)
(* A model of the peer-to-peer pool of mako (src/src/node/pool.c): the     *)
(* peer registry, the version handshake, loader selection, the in-flight   *)
(* request tables, the headers chain used with checkpoints, compact block  *)
(* handling and the ban score.                                             *)
(*                                                                         *)
(* The handlers of pool.c are sequential C functions.  They are written    *)
(* here as operators from a "world" record (every variable of the model,   *)
(* plus the messages written during the step) to the world after the       *)
(* call, so that a handler is the composition of the functions it calls,   *)
(* in the order of the source.  An action applies one event handler to     *)
(* the current world and stores the result.                                *)
(***************************************************************************)
EXTENDS Integers, Sequences, FiniteSets, TLC

(***************************************************************************)
(* Bounds of the model.                                                    *)
(***************************************************************************)
\* peers alive at the same time
MaxPeers == 2
\* network addresses
MaxAddrs == 2
\* handshake nonce values
MaxNonce == 2
\* stand-in for BTC_NET_MAX_BLOCK_REQUEST, scaled down
MaxBlockRequest == 3
\* stand-in for BTC_NET_MAX_TX_REQUEST, scaled down
MaxTxRequest == 3
\* stand-in for BTC_NET_MAX_INV, scaled down
MaxInv == 3
\* headers accepted in one message, scaled down from 2000
MaxHeaders == 2
\* queue length at which btc_peer_announce flushes, scaled down from 500
MaxInvQueue == 2
\* block hashes in one answer to getblocks, scaled down from 500
MaxGetblocks == 1
\* the same in the getblocks scenario, where the answer has to show an order
GetblocksChunk == 2
\* transaction hashes in one inv of the answer to mempool, scaled down
\* from 1000
MaxMempoolInv == 1
\* stand-in for BTC_NET_MAX_MESSAGE, the largest payload of a frame, scaled
\* down; not below the size of a header, as in the program
MaxMessage == 24
\* frames in the byte stream of a remote peer
MaxFrames == 2
\* items in the queue of data to serve of a peer that is not served
MaxQueued == 2
\* runs of the timer in the specification of the ping
MaxPings == 3
\* the period of the timer in the specification of the handshake limit,
\* in milliseconds: half of the limit of five seconds
ShortTick == 2500
\* runs of the timer in that specification
MaxShortTicks == 5

\* the bytes of a block written to a socket: two blocks and one item not
\* found reach the limit of btc_peer_flush_data
DataSize == 5242862
\* items in the queue of data to serve in the scenario of serving
MaxServeQueue == 4
\* runs of the timer in the scenario of serving
MaxServeTicks == 2

\* the period of the timer in the scenario of silent peers (5 minutes)
LongTick == 300000

\* the runs of the timer in the scenario of silent peers (90 minutes)
MaxLongTicks == 18

\* the generator: processes ever created, process ids, rekeyings of one
\* state, calls of btc_sysrand, and the words of the pool (120 in rand.c)
MaxProcs == 3

MaxPids == 2

MaxGen == 3

MaxSeeds == 3

PoolWords == 2
\* addresses accepted in one addr message, scaled down from 1000
MaxAddrList == 3
\* an addr message shorter than this is relayed, scaled down from 10
AddrRelayBelow == 2

(***************************************************************************)
(* Program constants.                                                      *)
(***************************************************************************)
\* pool->max_outbound, scaled down from 8
max_outbound == 2
\* pool->max_inbound, scaled down from 8
max_inbound == 1
\* ban threshold of btc_peer_increase_ban
BanThreshold == 100
\* score of a parse error
ParseErrorScore == 10
\* protocol versions of the network profile
BTC_NET_MIN_VERSION == 70001
BTC_NET_HEADERS_VERSION == 31800
BTC_NET_COMPACT_VERSION == 70014
BTC_NET_COMPACT_WITNESS_VERSION == 70015
BTC_NET_PONG_VERSION == 60000

\* the limit on partial compact blocks per peer (15 against a block
\* request limit of 16 in the program), scaled with MaxBlockRequest
MaxCompact == MaxBlockRequest - 1

NULL == 0 - 1

\* the period of the timer of the event loop in the specification of the
\* timeouts, in milliseconds: the limits on a connected peer are
\* multiples of it
Tick == 30000
\* the clock at the start of that specification: btc_ms is the time since
\* 1970, later than every limit
StartTime == 5000000
\* the clock stops after the longest limit, twenty minutes, has run out
MaxTime == StartTime + 20 * 60000 + 3 * Tick
\* while the chain is not synced the loader is closed and dialed again
\* every minute or two; the clock stops after four minutes then
ShortTime == StartTime + 8 * Tick

\* the size of a frame header: magic, command, payload length, checksum
HeaderSize == 24

\* the size of the command field of a header
CommandSize == 12

\* bytes buffered at which btc_peer_flush_data stops serving (10 << 20)
ServeLimit == 10485760

\* the size of an inventory item of a notfound message
NotfoundSize == 36

\* bytes buffered above which btc_peer_on_tick closes the peer (30 << 20)
DrainLimit == 31457280

PeerIds == 0 .. (MaxPeers - 1)
Addrs == 1 .. MaxAddrs
NonceVals == 1 .. MaxNonce

VARIABLES cfg, pool, peer, chain, mempool, addrman, sent, aborted,
          loopback, input, emitted, now, rng

vars ==
  <<cfg, pool, peer, chain, mempool, addrman, sent, aborted, loopback, input,
    emitted, now, rng>>

(***************************************************************************)
(* The global random number generator (rand.c).  Every process has its own *)
(* copy of rng_state; fork copies the memory of the parent to the child,   *)
(* which gets a process id that no live process holds, and the id of a     *)
(* process that has exited is free again.  A process is named by the order *)
(* of its creation, which the program cannot see.  The key of the state is *)
(* represented by the seed it was made from (each call of btc_sysrand      *)
(* returns entropy never seen before, or fails) and the number of times it *)
(* has been rekeyed; a value is represented by the key and the position it *)
(* was read at.  by (who seeded the state) and seedings are not part of    *)
(* the program: they record the history the claims are about.              *)
(***************************************************************************)
Procs == 1 .. MaxProcs

Pids == 1 .. MaxPids

\* rng_state of a process that has not called the generator: static
\* storage, all zero
RngZero ==
  [started |-> FALSE, pid |-> 0, seed |-> 0, gen |-> 0, pos |-> 0, by |-> 0]

NoCall == [api |-> "none"]

\* the generator before the first fork: one process
RngBoot ==
  [mem |-> [q \in Procs |-> RngZero], pid |-> [q \in Procs |-> IF q = 1 THEN 1 ELSE 0],
   live |-> {1}, made |-> 1, entropy |-> 0,
   seedings |-> [q \in Procs |-> 0], out |-> NoCall]

(***************************************************************************)
(* The world: the variables as one record, and the messages written so     *)
(* far in the step.  wfail is the set of peers whose socket write fails    *)
(* during the step (an input of the step), held the set of peers whose     *)
(* socket keeps what is written during the step in its buffer, not yet     *)
(* taken by the connection (an input as well; buffered is the number of    *)
(* bytes the socket of a peer holds).  The environment is part of the      *)
(* world: loopback is the connection of the node to its own listener (the  *)
(* two peers at its ends and the messages in flight to each), input is the *)
(* byte stream a remote peer writes (its frames, and how many bytes have   *)
(* been read so far), emitted is the list of messages the parser has       *)
(* handed to its on_msg callback, now is the value btc_ms returns during   *)
(* the step, in milliseconds (the clock stands still in the                *)
(* specifications that are not about time).                                *)
(***************************************************************************)
World(F) ==
  [cfg |-> cfg, pool |-> pool, peer |-> peer, chain |-> chain,
   mempool |-> mempool, addrman |-> addrman, sent |-> <<>>,
   aborted |-> FALSE, wfail |-> F, loopback |-> loopback, input |-> input,
   emitted |-> emitted, now |-> now, rnd |-> 1, held |-> {}]

StorePool(w) ==
  /\ cfg' = w.cfg
  /\ pool' = w.pool
  /\ peer' = w.peer
  /\ chain' = w.chain
  /\ mempool' = w.mempool
  /\ addrman' = w.addrman
  /\ sent' = w.sent
  /\ aborted' = w.aborted
  /\ loopback' = w.loopback
  /\ input' = w.input
  /\ emitted' = w.emitted
  /\ now' = w.now

\* the pool does not call the generator through this state: a step of
\* the pool leaves it alone
Store(w) == StorePool(w) /\ rng' = rng

\* the variables hold the world w (initial states)
Load(w) ==
  /\ cfg = w.cfg
  /\ pool = w.pool
  /\ peer = w.peer
  /\ chain = w.chain
  /\ mempool = w.mempool
  /\ addrman = w.addrman
  /\ sent = w.sent
  /\ aborted = w.aborted
  /\ loopback = w.loopback
  /\ input = w.input
  /\ emitted = w.emitted
  /\ now = w.now
  /\ rng = RngBoot

\* a failed CHECK: the process aborts
Abort(w) == [w EXCEPT !.aborted = TRUE]

SeqToSet(s) == {s[i] : i \in 1 .. Len(s)}

RECURSIVE SeqRemove(_, _)
SeqRemove(s, x) ==
  IF s = <<>> THEN <<>>
  ELSE IF Head(s) = x THEN SeqRemove(Tail(s), x)
       ELSE <<Head(s)>> \o SeqRemove(Tail(s), x)

(***************************************************************************)
(* Peer                                                                    *)
(***************************************************************************)
\* btc_parser_init: nothing pending, 24 bytes of header awaited.  The
\* closed flag of the parser is the field closed of the peer.
btc_parser_init ==
  [pending |-> <<>>, waiting |-> HeaderSize, cmd |-> <<>>,
   has_header |-> FALSE, checksum |-> <<0, 0, 0, 0>>]

\* no connection of the node to itself; no bytes to read
NoLoopback == [out |-> NULL, inn |-> NULL, to_out |-> <<>>, to_inn |-> <<>>]

NoInput == [p |-> NULL, frames |-> <<>>, fed |-> 0]

\* btc_peer_create: the fields after construction
NewPeer ==
  [live |-> TRUE, sock |-> "none", state |-> "DEAD", outbound |-> FALSE,
   loader |-> FALSE, addr |-> NULL, nonce |-> 0, ban_score |-> 0,
   version |-> NULL, services |-> {}, no_relay |-> FALSE, fee_rate |-> NULL,
   prefer_headers |-> FALSE, compact_mode |-> NULL,
   compact_witness |-> FALSE, syncing |-> FALSE, sent_addr |-> FALSE,
   getting_addr |-> FALSE, sent_getaddr |-> FALSE, gb_time |-> NULL,
   gh_time |-> NULL, closed |-> FALSE, hash_continue |-> NULL,
   sending |-> <<>>, inv_queue |-> <<>>, parser |-> btc_parser_init,
   inv_filter |-> {}, block_map |-> {}, tx_map |-> {}, compact_map |-> {},
   time |-> 0, last_send |-> 0, last_recv |-> 0, block_time |-> NULL,
   ping_timer |-> 0, inv_timer |-> 0, stall_timer |-> 0, challenge |-> 0,
   last_ping |-> NULL, last_pong |-> NULL, min_ping |-> NULL,
   addr_filter |-> {}, buffered |-> 0]

\* a slot that holds no peer (not yet created, or destroyed)
NoPeer == [NewPeer EXCEPT !.live = FALSE]

\* btc_nonces_alloc, with the random draw n
btc_nonces_alloc(w, n) == [w EXCEPT !.pool.nonces = @ \cup {n}]

btc_nonces_has(w, n) == n \in w.pool.nonces

btc_nonces_remove(w, n) == [w EXCEPT !.pool.nonces = @ \ {n}]

\* btc_peer_close
btc_peer_close(w, p) ==
  [w EXCEPT !.peer[p].sock = "closed",
            !.peer[p].state = "DEAD",
            !.peer[p].closed = TRUE]

\* btc_socket_write returns -1: the socket is closed, or the write fails
SocketWriteFails(w, p) == p \in w.wfail \/ w.peer[p].sock # "open"

\* the bytes of a message written: a block or a compact block is of
\* DataSize bytes, against which the other messages count as nothing
MsgSize(m) == IF m.cmd \in {"block", "cmpctblock"} THEN DataSize ELSE 0

\* btc_peer_write / btc_peer_send: a failed write closes the peer
btc_peer_write(w, p, m) ==
  IF SocketWriteFails(w, p) THEN btc_peer_close(w, p)
  ELSE [w EXCEPT !.sent = Append(@, m), !.peer[p].last_send = w.now,
                 !.peer[p].buffered =
                   IF p \in w.held THEN @ + MsgSize(m) ELSE @]

\* a message written: the command, and the numbers of its body (hashes,
\* a nonce, a mode); types holds the item types of an inv-like body
btc_peer_sendmsg(w, p, cmd, arg) ==
  btc_peer_write(w, p, [to |-> p, cmd |-> cmd, types |-> <<>>, arg |-> arg])

\* a message whose body is a list of inventory items
btc_peer_senditems(w, p, cmd, items) ==
  btc_peer_write(w, p, [to |-> p, cmd |-> cmd,
                        types |-> [i \in 1 .. Len(items) |-> items[i].type],
                        arg |-> [i \in 1 .. Len(items) |-> items[i].hash]])

\* btc_peers_get: the registered peer of an address, or NULL
btc_peers_get(w, a) ==
  IF \E e \in w.pool.map : e[1] = a
  THEN (CHOOSE e \in w.pool.map : e[1] = a)[2]
  ELSE NULL

btc_peers_has(w, a) == \E e \in w.pool.map : e[1] = a

\* btc_pool_ban
btc_pool_ban(w, a) ==
  LET q == btc_peers_get(w, a)
      w1 == [w EXCEPT !.addrman.banned = @ \cup {a},
                      !.addrman.addrs = @ \ {a}]
  IN IF q # NULL THEN btc_peer_close(w1, q) ELSE w1

\* btc_peer_increase_ban that bans above the threshold only
btc_peer_increase_ban_above(w, p, score) ==
  LET w1 == [w EXCEPT !.peer[p].ban_score = @ + score]
  IN IF w1.peer[p].ban_score > BanThreshold
     THEN btc_pool_ban(w1, w1.peer[p].addr)
     ELSE w1

\* btc_peer_increase_ban
btc_peer_increase_ban(w, p, score) ==
  LET w1 == [w EXCEPT !.peer[p].ban_score = @ + score]
  IN IF w1.peer[p].ban_score >= BanThreshold
     THEN btc_pool_ban(w1, w1.peer[p].addr)
     ELSE w1

(***************************************************************************)
(* Hashes.  A block or header hash is a natural number; 0 is the genesis   *)
(* block.  The header with previous block n and nonce field s (0 or 1)     *)
(* hashes to 2n + 1 + s, so the hash decides the header and its parent.    *)
(***************************************************************************)
\* btc_header_hash of the header (prev, s)
btc_header_hash(prev, s) == 2 * prev + 1 + s

PrevOf(h) == (h - 1) \div 2

RECURSIVE HeightOf(_)
HeightOf(h) == IF h = 0 THEN 0 ELSE 1 + HeightOf(PrevOf(h))

\* network->checkpoints and network->last_checkpoint
Checkpoints == <<[height |-> 2, hash |-> 3], [height |-> 3, hash |-> 7]>>

last_checkpoint == Checkpoints[Len(Checkpoints)].height

\* the service bits required of a syncing peer (pool->required_services)
required_services == {"NETWORK", "WITNESS"}

(***************************************************************************)
(* Chain (collaborator)                                                    *)
(***************************************************************************)
btc_chain_synced(w) == w.chain.synced

btc_chain_has_hash(w, h) == h \in w.chain.known

btc_chain_has_orphan(w, h) == h \in w.chain.orphans

btc_chain_has_invalid(w, h) == h \in w.chain.invalid

\* btc_chain_get_locator: the locator is represented by its first hash
btc_chain_get_locator(w) == <<w.chain.tip>>

(***************************************************************************)
(* Peer list                                                               *)
(***************************************************************************)
\* btc_peers_add
btc_peers_add(w, p) ==
  LET a == w.peer[p].addr
  IN IF btc_peers_has(w, a) \/ p \in w.pool.ids THEN Abort(w)
     ELSE [w EXCEPT !.pool.map = @ \cup {<<a, p>>},
                    !.pool.ids = @ \cup {p},
                    !.pool.list = Append(@, p),
                    !.pool.outbound = IF w.peer[p].outbound THEN @ + 1 ELSE @,
                    !.pool.inbound = IF w.peer[p].outbound THEN @ ELSE @ + 1]

\* btc_peers_remove with a slip: the counters are left as they are
btc_peers_remove_nocount(w, p) ==
  LET a == w.peer[p].addr
  IN IF <<a, p>> \notin w.pool.map \/ p \notin w.pool.ids THEN Abort(w)
     ELSE IF p = w.pool.load /\ ~w.peer[p].loader THEN Abort(w)
     ELSE [w EXCEPT !.pool.map = @ \ {<<a, p>>},
                    !.pool.ids = @ \ {p},
                    !.pool.list = SeqRemove(@, p),
                    !.pool.load = IF p = @ THEN NULL ELSE @,
                    !.peer[p].loader = IF p = w.pool.load THEN FALSE ELSE @]

\* btc_peers_remove
btc_peers_remove(w, p) ==
  LET a == w.peer[p].addr
  IN IF <<a, p>> \notin w.pool.map \/ p \notin w.pool.ids THEN Abort(w)
     ELSE IF p = w.pool.load /\ ~w.peer[p].loader THEN Abort(w)
     ELSE [w EXCEPT !.pool.map = @ \ {<<a, p>>},
                    !.pool.ids = @ \ {p},
                    !.pool.list = SeqRemove(@, p),
                    !.pool.load = IF p = @ THEN NULL ELSE @,
                    !.peer[p].loader = IF p = w.pool.load THEN FALSE ELSE @,
                    !.pool.outbound = IF w.peer[p].outbound THEN @ - 1 ELSE @,
                    !.pool.inbound = IF w.peer[p].outbound THEN @ ELSE @ - 1]

(***************************************************************************)
(* Headers chain                                                           *)
(***************************************************************************)
HNull == [k |-> "null", hash |-> 0, height |-> 0]

\* btc_hdrentry_create
btc_hdrentry_create(hash, height) == [hash |-> hash, height |-> height]

HPtr(node) == [k |-> "node", hash |-> node.hash, height |-> node.height]

\* btc_pool_next_tip: the index of the first checkpoint above height, 0 if
\* there is none (the program aborts)
btc_pool_next_tip(height) ==
  IF \E i \in 1 .. Len(Checkpoints) : Checkpoints[i].height > height
  THEN CHOOSE i \in 1 .. Len(Checkpoints) :
         /\ Checkpoints[i].height > height
         /\ \A j \in 1 .. (i - 1) : Checkpoints[j].height <= height
  ELSE 0

\* btc_pool_clear_chain
btc_pool_clear_chain(w) ==
  [w EXCEPT !.pool.checkpoints = FALSE,
            !.pool.header_tip = 0,
            !.pool.hdr = <<>>,
            !.pool.header_next = HNull]

\* btc_pool_reset_chain
btc_pool_reset_chain(w) ==
  IF ~w.cfg.checkpoints_enabled THEN w
  ELSE IF Len(Checkpoints) = 0 THEN w
  ELSE LET w1 == btc_pool_clear_chain(w)
       IN IF w1.chain.height < last_checkpoint
          THEN IF btc_pool_next_tip(w1.chain.height) = 0 THEN Abort(w1)
               ELSE [w1 EXCEPT
                       !.pool.checkpoints = TRUE,
                       !.pool.header_tip = btc_pool_next_tip(w1.chain.height),
                       !.pool.hdr = <<btc_hdrentry_create(w1.chain.tip,
                                                          w1.chain.height)>>]
          ELSE w1

(***************************************************************************)
(* Sync requests                                                           *)
(***************************************************************************)
\* btc_peer_send_getblocks: stop is a hash, or NULL
btc_peer_send_getblocks(w, p, locator, stop) ==
  btc_peer_sendmsg([w EXCEPT !.peer[p].gb_time = w.now], p, "getblocks",
                   locator \o <<stop>>)

\* btc_peer_send_getheaders
btc_peer_send_getheaders(w, p, locator, stop) ==
  btc_peer_sendmsg([w EXCEPT !.peer[p].gh_time = w.now], p, "getheaders",
                   locator \o <<stop>>)

\* btc_peer_send_mempool
btc_peer_send_mempool(w, p) ==
  IF "BLOOM" \notin w.peer[p].services THEN w
  ELSE btc_peer_sendmsg(w, p, "mempool", <<>>)

\* btc_pool_is_syncable
btc_pool_is_syncable(w, p) ==
  /\ w.peer[p].state = "CONNECTED"
  /\ required_services \subseteq w.peer[p].services
  /\ (~w.peer[p].loader => btc_chain_synced(w))

\* btc_pool_send_locator
btc_pool_send_locator(w, p, locator) ==
  IF ~btc_pool_is_syncable(w, p) THEN w
  ELSE LET w1 == IF w.cfg.request_mempool /\ w.peer[p].loader
                    /\ btc_chain_synced(w)
                 THEN btc_peer_send_mempool(w, p) ELSE w
           w2 == [w1 EXCEPT !.peer[p].syncing = TRUE,
                            !.peer[p].block_time = w.now]
       IN IF w2.pool.checkpoints
          THEN btc_peer_send_getheaders(w2, p, locator,
                                        Checkpoints[w2.pool.header_tip].hash)
          ELSE btc_peer_send_getblocks(w2, p, locator, NULL)

\* btc_pool_send_sync
btc_pool_send_sync(w, p) ==
  IF w.peer[p].syncing THEN w
  ELSE IF ~btc_pool_is_syncable(w, p) THEN w
  ELSE btc_pool_send_locator(w, p, btc_chain_get_locator(w))

\* btc_pool_resync: the peers of the list from index i on
RECURSIVE btc_pool_resync_from(_, _, _)
btc_pool_resync_from(w, force, i) ==
  IF i > Len(w.pool.list) THEN w
  ELSE LET q == w.pool.list[i]
           w1 == IF ~w.peer[q].outbound THEN w
                 ELSE IF ~force /\ w.peer[q].syncing THEN w
                 ELSE btc_pool_send_locator(w, q, btc_chain_get_locator(w))
       IN btc_pool_resync_from(w1, force, i + 1)

btc_pool_resync(w, force) == btc_pool_resync_from(w, force, 1)

(***************************************************************************)
(* Loader and outbound peers.  The address manager, the connect call and   *)
(* the random nonce are inputs drawn inside the callback, so the functions *)
(* that dial return the set of worlds they can produce.                    *)
(***************************************************************************)
\* the addresses that pass the filters of btc_pool_get_addr
Candidates(w) ==
  {a \in w.addrman.addrs :
     ~btc_peers_has(w, a) /\ a \notin w.addrman.banned}

\* btc_pool_get_addr: any candidate; NULL when the draws of the address
\* manager can all be filtered out
btc_pool_get_addr(w) ==
  Candidates(w) \cup
    (IF Candidates(w) # {} /\ Candidates(w) = w.addrman.addrs
     THEN {} ELSE {NULL})

\* a peer can be created: a slot and a nonce are left within the bounds
CanCreate(w) ==
  /\ \E q \in PeerIds : ~w.peer[q].live
  /\ NonceVals \ w.pool.nonces # {}

\* the slot of the next peer created.  A peer is identified by its slot;
\* peer->id is unique for every creation, so a slot that is reused stands
\* for a new id.
NewSlot(w) ==
  CHOOSE q \in PeerIds : ~w.peer[q].live /\ \A r \in PeerIds :
                                              ~w.peer[r].live => q <= r

\* btc_pool_create_outbound (btc_peer_create, btc_peer_open): the worlds
\* with the new peer in slot NewSlot(w), one for each nonce that
\* btc_nonces_alloc can return
btc_pool_create_outbound(w, a) ==
  {btc_nonces_alloc(
     [w EXCEPT !.peer[NewSlot(w)] =
        [NewPeer EXCEPT !.state = "CONNECTING", !.sock = "connecting",
                        !.addr = a, !.outbound = TRUE, !.time = w.now,
                        !.nonce = n]], n) :
     n \in NonceVals \ w.pool.nonces}

\* btc_pool_set_loader with a slip: the new loader is not asked to sync
btc_pool_set_loader_nosync(w, p) ==
  IF ~w.peer[p].outbound \/ w.pool.load # NULL \/ w.peer[p].loader
  THEN Abort(w)
  ELSE [w EXCEPT !.peer[p].loader = TRUE, !.pool.load = p]

\* btc_pool_set_loader
btc_pool_set_loader(w, p) ==
  IF ~w.peer[p].outbound \/ w.pool.load # NULL \/ w.peer[p].loader
  THEN Abort(w)
  ELSE btc_pool_send_sync([w EXCEPT !.peer[p].loader = TRUE,
                                    !.pool.load = p], p)

\* the first outbound peer of the list, or NULL
FirstOutbound(w) ==
  IF \E i \in 1 .. Len(w.pool.list) : w.peer[w.pool.list[i]].outbound
  THEN w.pool.list[CHOOSE i \in 1 .. Len(w.pool.list) :
         /\ w.peer[w.pool.list[i]].outbound
         /\ \A j \in 1 .. (i - 1) : ~w.peer[w.pool.list[j]].outbound]
  ELSE NULL

\* btc_pool_add_loader with a slip: only a CONNECTED outbound peer is
\* repurposed
btc_pool_add_loader_connected(w) ==
  LET conn == SelectSeq(w.pool.list,
                        LAMBDA q : w.peer[q].outbound
                                     /\ w.peer[q].state = "CONNECTED")
  IN IF w.pool.load # NULL THEN {Abort(w)}
     ELSE IF conn # <<>> THEN {btc_pool_set_loader(w, Head(conn))}
     ELSE IF ~CanCreate(w) THEN {w}
     ELSE UNION {IF a = NULL THEN {w}
                 ELSE {w} \cup
                      {LET w2 == btc_peers_add(w1, NewSlot(w))
                       IN IF w2.aborted THEN w2
                          ELSE btc_pool_set_loader(w2, NewSlot(w)) :
                         w1 \in btc_pool_create_outbound(w, a)} :
                 a \in btc_pool_get_addr(w)}

\* btc_pool_add_loader: the connect call fails (the world is unchanged) or
\* the new peer is registered and made the loader
btc_pool_add_loader(w) ==
  IF w.pool.load # NULL THEN {Abort(w)}
  ELSE IF FirstOutbound(w) # NULL
  THEN {btc_pool_set_loader(w, FirstOutbound(w))}
  ELSE IF ~CanCreate(w) THEN {w}
  ELSE UNION {IF a = NULL THEN {w}
              ELSE {w} \cup
                   {LET w2 == btc_peers_add(w1, NewSlot(w))
                    IN IF w2.aborted THEN w2
                       ELSE btc_pool_set_loader(w2, NewSlot(w)) :
                      w1 \in btc_pool_create_outbound(w, a)} :
              a \in btc_pool_get_addr(w)}

\* btc_pool_add_outbound
btc_pool_add_outbound(w) ==
  IF w.pool.outbound >= w.pool.max_outbound THEN {w}
  ELSE IF w.pool.load = NULL THEN {w}
  ELSE IF ~CanCreate(w) THEN {w}
  ELSE UNION {IF a = NULL THEN {w}
              ELSE {w} \cup
                   {btc_peers_add(w1, NewSlot(w)) :
                      w1 \in btc_pool_create_outbound(w, a)} :
              a \in btc_pool_get_addr(w)}

Min(a, b) == IF a < b THEN a ELSE b

\* the loop of btc_pool_fill_outbound, i calls left
RECURSIVE AddOutboundLoop(_, _)
AddOutboundLoop(w, i) ==
  IF i = 0 \/ w.aborted THEN {w}
  ELSE UNION {AddOutboundLoop(w1, i - 1) : w1 \in btc_pool_add_outbound(w)}

\* btc_pool_fill_outbound
btc_pool_fill_outbound(w) ==
  LET total == Cardinality(w.addrman.addrs)
      after == IF w.pool.load = NULL THEN btc_pool_add_loader(w) ELSE {w}
  IN UNION {IF w1.aborted \/ w1.pool.load = NULL THEN {w1}
            ELSE IF w1.pool.outbound >= w1.pool.max_outbound THEN {w1}
            ELSE AddOutboundLoop(w1, Min(w1.pool.max_outbound
                                           - w1.pool.outbound,
                                         total)) :
            w1 \in after}

(***************************************************************************)
(* Addresses.  An item of an addr message is an address with two flags: ok *)
(* (routable, with the required services and a port) and recent (its time  *)
(* is within the last ten minutes).  The two peers an address is relayed   *)
(* to are picked by a hash of the address, so any two CONNECTED peers can  *)
(* be the ones.                                                            *)
(***************************************************************************)
\* btc_peer_send_addr_1 to a peer whose filter does not hold the address
RelayOne(w, a, q) ==
  IF a \in w.peer[q].addr_filter THEN w
  ELSE btc_peer_sendmsg([w EXCEPT !.peer[q].addr_filter = @ \cup {a}], q,
                        "addr", <<a>>)

\* the relay loop of btc_pool_on_addr over the CONNECTED peers
RECURSIVE RelayLoop(_, _, _)
RelayLoop(w, relay, peers) ==
  IF relay = <<>> THEN {w}
  ELSE UNION {RelayLoop(RelayOne(RelayOne(w, Head(relay), peers[i1]),
                                 Head(relay), peers[i2]),
                        Tail(relay), peers) :
                i1 \in 1 .. Len(peers), i2 \in 1 .. Len(peers)}

\* the loop of btc_pool_on_addr over the items from index i on: the
\* world and the addresses to relay
RECURSIVE AddrLoop(_, _, _, _, _)
AddrLoop(w, p, items, i, relay) ==
  IF i > Len(items) THEN [w |-> w, relay |-> relay]
  ELSE LET it == items[i]
           w1 == [w EXCEPT !.peer[p].addr_filter = @ \cup {it.addr}]
       IN IF ~it.ok \/ it.addr \in w1.addrman.banned
          THEN AddrLoop(w1, p, items, i + 1, relay)
          ELSE AddrLoop([w1 EXCEPT !.addrman.addrs = @ \cup {it.addr}],
                        p, items, i + 1,
                        IF /\ ~w1.peer[p].getting_addr
                           /\ Len(items) < AddrRelayBelow
                           /\ it.recent
                        THEN Append(relay, it.addr) ELSE relay)

\* btc_pool_on_addr: the worlds after the refill
btc_pool_on_addr(w, p, msg) ==
  IF Len(msg.items) > MaxAddrList THEN {btc_peer_increase_ban(w, p, 100)}
  ELSE LET r == AddrLoop(w, p, msg.items, 1, <<>>)
           w1 == IF Len(msg.items) < MaxAddrList
                 THEN [r.w EXCEPT !.peer[p].getting_addr = FALSE]
                 ELSE r.w
           peers == SelectSeq(w1.pool.list,
                              LAMBDA q : w1.peer[q].state = "CONNECTED")
           relayed == IF r.relay # <<>> /\ peers # <<>>
                      THEN RelayLoop(w1, r.relay, peers) ELSE {w1}
       IN UNION {btc_pool_fill_outbound(w2) : w2 \in relayed}

(***************************************************************************)
(* Handshake                                                               *)
(***************************************************************************)
\* btc_peer_send_version
btc_peer_send_version(w, p) ==
  btc_peer_sendmsg(w, p, "version", <<w.peer[p].nonce>>)

\* btc_peer_on_connect (btc_pool_on_connect only marks the address)
btc_peer_on_connect(w, p) ==
  LET w1 == IF w.peer[p].outbound THEN btc_peer_send_version(w, p) ELSE w
  IN [w1 EXCEPT !.peer[p].state = "WAIT_VERSION", !.peer[p].time = w.now]

\* btc_peer_on_version with a slip: the nonce of the version is not looked
\* up in the nonce list
btc_peer_on_version_anynonce(w, p, msg) ==
  IF w.peer[p].state # "WAIT_VERSION" THEN btc_peer_close(w, p)
  ELSE LET w1 == [w EXCEPT !.peer[p].version = msg.version,
                           !.peer[p].services = msg.services,
                           !.peer[p].no_relay = msg.no_relay]
       IN IF msg.version < w.cfg.min_version
          THEN btc_peer_close(w1, p)
          ELSE IF w1.peer[p].outbound /\ "NETWORK" \notin msg.services
          THEN btc_peer_close(w1, p)
          ELSE IF /\ w1.peer[p].outbound
                  /\ w1.cfg.checkpoints_enabled
                  /\ msg.version < BTC_NET_HEADERS_VERSION
          THEN btc_peer_close(w1, p)
          ELSE IF w1.peer[p].outbound /\ "WITNESS" \notin msg.services
          THEN btc_peer_close(w1, p)
          ELSE LET w2 == IF ~w1.peer[p].outbound
                         THEN btc_peer_send_version(w1, p) ELSE w1
                   w3 == btc_peer_sendmsg(w2, p, "verack", <<>>)
               IN [w3 EXCEPT !.peer[p].state = "WAIT_VERACK"]

\* btc_peer_on_version with a slip: the witness service bit is not checked
btc_peer_on_version_nowitness(w, p, msg) ==
  IF w.peer[p].state # "WAIT_VERSION" THEN btc_peer_close(w, p)
  ELSE LET w1 == [w EXCEPT !.peer[p].version = msg.version,
                           !.peer[p].services = msg.services,
                           !.peer[p].no_relay = msg.no_relay]
       IN IF ~w1.cfg.self_connect /\ btc_nonces_has(w1, msg.nonce)
          THEN btc_peer_close(w1, p)
          ELSE IF msg.version < w.cfg.min_version
          THEN btc_peer_close(w1, p)
          ELSE IF w1.peer[p].outbound /\ "NETWORK" \notin msg.services
          THEN btc_peer_close(w1, p)
          ELSE IF /\ w1.peer[p].outbound
                  /\ w1.cfg.checkpoints_enabled
                  /\ msg.version < BTC_NET_HEADERS_VERSION
          THEN btc_peer_close(w1, p)
          ELSE LET w2 == IF ~w1.peer[p].outbound
                         THEN btc_peer_send_version(w1, p) ELSE w1
                   w3 == btc_peer_sendmsg(w2, p, "verack", <<>>)
               IN [w3 EXCEPT !.peer[p].state = "WAIT_VERACK"]

\* btc_peer_on_version
btc_peer_on_version(w, p, msg) ==
  IF w.peer[p].state # "WAIT_VERSION" THEN btc_peer_close(w, p)
  ELSE LET w1 == [w EXCEPT !.peer[p].version = msg.version,
                           !.peer[p].services = msg.services,
                           !.peer[p].no_relay = msg.no_relay]
       IN IF ~w1.cfg.self_connect /\ btc_nonces_has(w1, msg.nonce)
          THEN btc_peer_close(w1, p)
          ELSE IF msg.version < w.cfg.min_version
          THEN btc_peer_close(w1, p)
          ELSE IF w1.peer[p].outbound /\ "NETWORK" \notin msg.services
          THEN btc_peer_close(w1, p)
          ELSE IF /\ w1.peer[p].outbound
                  /\ w1.cfg.checkpoints_enabled
                  /\ msg.version < BTC_NET_HEADERS_VERSION
          THEN btc_peer_close(w1, p)
          ELSE IF w1.peer[p].outbound /\ "WITNESS" \notin msg.services
          THEN btc_peer_close(w1, p)
          ELSE LET w2 == IF ~w1.peer[p].outbound
                         THEN btc_peer_send_version(w1, p) ELSE w1
                   w3 == btc_peer_sendmsg(w2, p, "verack", <<>>)
               IN [w3 EXCEPT !.peer[p].state = "WAIT_VERACK"]

\* btc_pool_on_version
btc_pool_on_version(w, p, msg) == btc_nonces_remove(w, w.peer[p].nonce)

\* btc_peer_send_sendcmpct: only the witness version 2 is negotiated
btc_peer_send_sendcmpct(w, p, mode) ==
  IF /\ "WITNESS" \in w.peer[p].services
     /\ w.peer[p].version >= BTC_NET_COMPACT_WITNESS_VERSION
  THEN btc_peer_sendmsg(w, p, "sendcmpct", <<mode, 2>>)
  ELSE w

\* btc_pool_on_complete with a slip: the stale loader is dropped from the
\* loader slot but keeps its flag
btc_pool_on_complete_keepflag(w, p) ==
  LET out == w.peer[p].outbound
      w1 == IF out
            THEN [btc_peer_sendmsg(w, p, "getaddr", <<>>)
                    EXCEPT !.peer[p].getting_addr = TRUE]
            ELSE w
      w2 == IF w1.cfg.bip152_enabled
            THEN btc_peer_send_sendcmpct(w1, p, w1.cfg.block_mode)
            ELSE w1
  IN IF ~out THEN w2
     ELSE LET w3 == btc_pool_send_sync(w2, p)
              l == w3.pool.load
              w4 == IF /\ ~w3.peer[p].loader
                       /\ l # NULL
                       /\ w3.peer[l].state # "CONNECTED"
                    THEN [w3 EXCEPT !.pool.load = NULL]
                    ELSE w3
          IN IF w4.pool.load = NULL THEN btc_pool_set_loader(w4, p)
             ELSE w4

\* btc_pool_on_complete (pool->listening is never set)
btc_pool_on_complete(w, p) ==
  LET out == w.peer[p].outbound
      w1 == IF out
            THEN [btc_peer_sendmsg(w, p, "getaddr", <<>>)
                    EXCEPT !.peer[p].getting_addr = TRUE]
            ELSE w
      w2 == IF w1.cfg.bip152_enabled
            THEN btc_peer_send_sendcmpct(w1, p, w1.cfg.block_mode)
            ELSE w1
  IN IF ~out THEN w2
     ELSE LET w3 == btc_pool_send_sync(w2, p)
              l == w3.pool.load
              w4 == IF /\ ~w3.peer[p].loader
                       /\ l # NULL
                       /\ w3.peer[l].state # "CONNECTED"
                    THEN [w3 EXCEPT !.peer[l].loader = FALSE,
                                    !.pool.load = NULL]
                    ELSE w3
          IN IF w4.pool.load = NULL THEN btc_pool_set_loader(w4, p)
             ELSE w4

\* btc_peer_on_verack with a slip: the state is not checked
btc_peer_on_verack_nocheck(w, p) ==
  btc_pool_on_complete([w EXCEPT !.peer[p].state = "CONNECTED"], p)

\* btc_peer_on_verack
btc_peer_on_verack(w, p) ==
  IF w.peer[p].state # "WAIT_VERACK" THEN btc_peer_close(w, p)
  ELSE btc_pool_on_complete([w EXCEPT !.peer[p].state = "CONNECTED"], p)

\* btc_peer_on_parse_error
btc_peer_on_parse_error(w, p) ==
  IF w.peer[p].state = "DEAD" THEN w
  ELSE btc_peer_increase_ban(w, p, ParseErrorScore)

\* btc_pool_on_socket (btc_peer_create, btc_peer_accept, btc_peers_add)
btc_pool_on_socket(w, a, n) ==
  LET p == NewSlot(w)
      w1 == btc_nonces_alloc(
              [w EXCEPT !.peer[p] =
                          [NewPeer EXCEPT !.state = "WAIT_VERSION",
                                          !.sock = "open", !.addr = a,
                                          !.time = w.now, !.nonce = n]], n)
  IN btc_peers_add(w1, p)

(***************************************************************************)
(* Disconnect                                                              *)
(***************************************************************************)
\* btc_pool_remove_peer without the loop over the transaction requests
btc_pool_remove_peer_keeptx(w, p) ==
  LET w1 == btc_peers_remove(w, p)
  IN IF w1.aborted THEN w1
     ELSE [w1 EXCEPT !.pool.block_map = @ \ w1.peer[p].block_map,
                     !.pool.compact_map = @ \ w1.peer[p].compact_map]

\* btc_pool_remove_peer with a slip: the sets of the pool are emptied
btc_pool_remove_peer_all(w, p) ==
  LET w1 == btc_peers_remove(w, p)
  IN IF w1.aborted THEN w1
     ELSE [w1 EXCEPT !.pool.block_map = {},
                     !.pool.tx_map = {},
                     !.pool.compact_map = {}]

\* btc_pool_remove_peer
btc_pool_remove_peer(w, p) ==
  LET w1 == btc_peers_remove(w, p)
  IN IF w1.aborted THEN w1
     ELSE IF ~(w1.peer[p].block_map \subseteq w1.pool.block_map)
     THEN Abort(w1)
     ELSE IF ~(w1.peer[p].tx_map \subseteq w1.pool.tx_map)
     THEN Abort([w1 EXCEPT !.pool.block_map = @ \ w1.peer[p].block_map])
     ELSE IF ~(w1.peer[p].compact_map \subseteq w1.pool.compact_map)
     THEN Abort([w1 EXCEPT !.pool.block_map = @ \ w1.peer[p].block_map,
                           !.pool.tx_map = @ \ w1.peer[p].tx_map])
     ELSE [w1 EXCEPT !.pool.block_map = @ \ w1.peer[p].block_map,
                     !.pool.tx_map = @ \ w1.peer[p].tx_map,
                     !.pool.compact_map = @ \ w1.peer[p].compact_map]

\* btc_peer_destroy
btc_peer_destroy(w, p) == [w EXCEPT !.peer[p] = NoPeer]

\* btc_pool_on_disconnect
btc_pool_on_disconnect(w, p) ==
  LET loader == w.peer[p].loader
      size == Cardinality(w.peer[p].block_map)
      w1 == btc_pool_remove_peer(w, p)
  IN IF w1.aborted THEN w1
     ELSE LET w2 == IF loader /\ w1.pool.checkpoints
                    THEN btc_pool_reset_chain(w1) ELSE w1
              w3 == btc_nonces_remove(w2, w2.peer[p].nonce)
              w4 == IF btc_chain_synced(w3) /\ size > 0
                    THEN btc_pool_resync(w3, TRUE) ELSE w3
          IN IF w2.aborted THEN w2 ELSE btc_peer_destroy(w4, p)

(***************************************************************************)
(* Requests in flight                                                      *)
(***************************************************************************)
\* btc_peer_has_compact_support
btc_peer_has_compact_support(w, p) ==
  /\ w.peer[p].version >= BTC_NET_COMPACT_VERSION
  /\ "WITNESS" \in w.peer[p].services
  /\ w.peer[p].version >= BTC_NET_COMPACT_WITNESS_VERSION

\* btc_peer_has_compact
btc_peer_has_compact(w, p) ==
  w.peer[p].compact_mode # NULL /\ w.peer[p].compact_witness

\* btc_peer_block_type
btc_peer_block_type(w, p) ==
  IF /\ w.cfg.bip152_enabled
     /\ btc_peer_has_compact_support(w, p)
     /\ btc_peer_has_compact(w, p)
  THEN "cmpct_block"
  ELSE IF "WITNESS" \in w.peer[p].services THEN "witness_block"
  ELSE "block"

\* btc_peer_tx_type
btc_peer_tx_type(w, p) ==
  IF "WITNESS" \in w.peer[p].services THEN "witness_tx" ELSE "tx"

\* the hashes of a request that are not in flight yet, in order, each once
RECURSIVE NewHashes(_, _)
NewHashes(hashes, have) ==
  IF hashes = <<>> THEN <<>>
  ELSE IF Head(hashes) \in have THEN NewHashes(Tail(hashes), have)
  ELSE <<Head(hashes)>> \o NewHashes(Tail(hashes), have \cup {Head(hashes)})

Items(type, hashes) ==
  [i \in 1 .. Len(hashes) |-> [type |-> type, hash |-> hashes[i]]]

\* btc_pool_request_blocks
btc_pool_request_blocks(w, p, hashes) ==
  IF w.peer[p].state # "CONNECTED" THEN w
  ELSE LET new == NewHashes(hashes, w.pool.block_map)
           w1 == [w EXCEPT !.pool.block_map = @ \cup SeqToSet(new),
                           !.peer[p].block_map = @ \cup SeqToSet(new)]
       IN IF Len(new) = 0 THEN w1
          ELSE IF Cardinality(w1.peer[p].block_map) >= MaxBlockRequest
          THEN btc_peer_close(w1, p)
          ELSE btc_peer_senditems(w1, p, "getdata",
                                  Items(btc_peer_block_type(w1, p), new))

\* btc_pool_request_txs
btc_pool_request_txs(w, p, hashes) ==
  IF w.peer[p].state # "CONNECTED" THEN w
  ELSE LET new == NewHashes(hashes, w.pool.tx_map)
           w1 == [w EXCEPT !.pool.tx_map = @ \cup SeqToSet(new),
                           !.peer[p].tx_map = @ \cup SeqToSet(new)]
       IN IF Len(new) = 0 THEN w1
          ELSE IF Cardinality(w1.peer[p].tx_map) >= MaxTxRequest
          THEN btc_peer_close(w1, p)
          ELSE btc_peer_senditems(w1, p, "getdata",
                                  Items(btc_peer_tx_type(w1, p), new))

\* btc_pool_resolve_block without the removal from the table of the pool
btc_pool_resolve_block_keep(w, p, h) ==
  IF h \notin w.peer[p].block_map THEN w
  ELSE [w EXCEPT !.peer[p].block_map = @ \ {h}]

\* btc_pool_resolve_block: the world after a successful call (the call
\* returns 0 and changes nothing when h is not a key of the peer's table)
btc_pool_resolve_block(w, p, h) ==
  IF h \notin w.peer[p].block_map THEN w
  ELSE IF h \notin w.pool.block_map
  THEN Abort([w EXCEPT !.peer[p].block_map = @ \ {h}])
  ELSE [w EXCEPT !.peer[p].block_map = @ \ {h},
                 !.pool.block_map = @ \ {h}]

\* btc_pool_resolve_tx
btc_pool_resolve_tx(w, p, h) ==
  IF h \notin w.peer[p].tx_map THEN w
  ELSE IF h \notin w.pool.tx_map
  THEN Abort([w EXCEPT !.peer[p].tx_map = @ \ {h}])
  ELSE [w EXCEPT !.peer[p].tx_map = @ \ {h},
                 !.pool.tx_map = @ \ {h}]

TxTypes == {"tx", "witness_tx"}

BlockTypes ==
  {"block", "filtered_block", "cmpct_block", "witness_block",
   "witness_filtered_block"}

\* the return value of btc_pool_resolve_item
CanResolveItem(w, p, item) ==
  \/ item.type \in TxTypes /\ item.hash \in w.peer[p].tx_map
  \/ item.type \in BlockTypes /\ item.hash \in w.peer[p].block_map

\* btc_pool_resolve_item
btc_pool_resolve_item(w, p, item) ==
  IF item.type \in TxTypes THEN btc_pool_resolve_tx(w, p, item.hash)
  ELSE IF item.type \in BlockTypes
  THEN btc_pool_resolve_block(w, p, item.hash)
  ELSE w

\* btc_pool_on_notfound that passes over an item it cannot resolve
RECURSIVE btc_pool_on_notfound_skip(_, _, _)
btc_pool_on_notfound_skip(w, p, items) ==
  IF items = <<>> \/ w.aborted THEN w
  ELSE btc_pool_on_notfound_skip(btc_pool_resolve_item(w, p, Head(items)), p,
                                 Tail(items))

\* btc_pool_on_notfound
RECURSIVE btc_pool_on_notfound(_, _, _)
btc_pool_on_notfound(w, p, items) ==
  IF items = <<>> \/ w.aborted THEN w
  ELSE IF ~CanResolveItem(w, p, Head(items)) THEN btc_peer_close(w, p)
  ELSE btc_pool_on_notfound(btc_pool_resolve_item(w, p, Head(items)), p,
                            Tail(items))

(***************************************************************************)
(* Announcements                                                           *)
(***************************************************************************)
\* btc_peer_flush_inv: the queue is reset whether or not the write fails
btc_peer_flush_inv(w, p) ==
  IF Len(w.peer[p].inv_queue) = 0 THEN w
  ELSE [btc_peer_senditems(w, p, "inv_full", w.peer[p].inv_queue)
          EXCEPT !.peer[p].inv_queue = <<>>]

\* btc_peer_send_inv
btc_peer_send_inv(w, p, items) ==
  btc_peer_senditems(
    [w EXCEPT !.peer[p].inv_filter =
                @ \cup {items[i].hash : i \in 1 .. Len(items)}],
    p, "inv", items)

\* btc_peer_send_inv_1
btc_peer_send_inv_1(w, p, type, hash) ==
  btc_peer_senditems([w EXCEPT !.peer[p].inv_filter = @ \cup {hash}],
                     p, "inv", Items(type, <<hash>>))

\* the fee rate of a pool transaction (btc_get_rate of the mempool entry)
TxRate(h) == h % 2

\* btc_peer_announce without the test of the filter, for a peer that has
\* sent neither sendheaders nor feefilter
btc_peer_announce_nofilter(w, p, type, hash) ==
  IF type = "tx" /\ w.peer[p].no_relay THEN w
  ELSE LET w2 == [w EXCEPT !.peer[p].inv_filter = @ \cup {hash},
                           !.peer[p].inv_queue =
                             Append(@, [type |-> type, hash |-> hash])]
       IN IF Len(w2.peer[p].inv_queue) >= MaxInvQueue \/ type = "block"
          THEN btc_peer_flush_inv(w2, p)
          ELSE w2

\* btc_peer_announce
btc_peer_announce(w, p, type, hash) ==
  IF type = "tx" /\ w.peer[p].no_relay THEN w
  ELSE IF hash \in w.peer[p].inv_filter THEN w
  ELSE LET w1 == [w EXCEPT !.peer[p].inv_filter = @ \cup {hash}]
       IN IF type = "block" /\ w1.peer[p].prefer_headers
          THEN IF ~btc_chain_has_hash(w1, hash) THEN Abort(w1)
               ELSE btc_peer_sendmsg(w1, p, "headers", <<hash>>)
          ELSE IF type = "tx" /\ w1.peer[p].fee_rate # NULL
                  /\ hash \notin w1.mempool.txs
          THEN Abort(w1)
          ELSE IF type = "tx" /\ w1.peer[p].fee_rate # NULL
                  /\ TxRate(hash) < w1.peer[p].fee_rate
          THEN w1
          ELSE LET w2 == [w1 EXCEPT !.peer[p].inv_queue =
                            Append(@, [type |-> type, hash |-> hash])]
               IN IF Len(w2.peer[p].inv_queue) >= MaxInvQueue
                     \/ type = "block"
                  THEN btc_peer_flush_inv(w2, p)
                  ELSE w2

\* btc_peer_announce_block
btc_peer_announce_block(w, p, hash) ==
  IF hash \in w.peer[p].inv_filter THEN w
  ELSE LET w1 == [w EXCEPT !.peer[p].inv_filter = @ \cup {hash}]
       IN IF w1.peer[p].compact_mode = 1
          THEN btc_peer_sendmsg(w1, p, "cmpctblock", <<hash>>)
          ELSE IF w1.peer[p].prefer_headers
          THEN btc_peer_sendmsg(w1, p, "headers", <<hash>>)
          ELSE btc_peer_flush_inv(
                 [w1 EXCEPT !.peer[p].inv_queue =
                    Append(@, [type |-> "block", hash |-> hash])], p)

\* btc_pool_announce: the peers of the list from index i on
RECURSIVE btc_pool_announce_from(_, _, _, _)
btc_pool_announce_from(w, type, hash, i) ==
  IF i > Len(w.pool.list) \/ w.aborted THEN w
  ELSE LET q == w.pool.list[i]
       IN btc_pool_announce_from(
            IF w.peer[q].state # "CONNECTED" THEN w
            ELSE btc_peer_announce(w, q, type, hash),
            type, hash, i + 1)

btc_pool_announce(w, type, hash) == btc_pool_announce_from(w, type, hash, 1)

\* btc_pool_announce_block
RECURSIVE btc_pool_announce_block_from(_, _, _)
btc_pool_announce_block_from(w, hash, i) ==
  IF i > Len(w.pool.list) THEN w
  ELSE LET q == w.pool.list[i]
       IN btc_pool_announce_block_from(
            IF w.peer[q].state # "CONNECTED" THEN w
            ELSE btc_peer_announce_block(w, q, hash),
            hash, i + 1)

btc_pool_announce_block(w, hash) == btc_pool_announce_block_from(w, hash, 1)


(***************************************************************************)
(* Headers chain with checkpoints.  pool.hdr is the list from header_head  *)
(* to header_tail.  pool.header_next names a node of the list, is null, or *)
(* is "freed": it still holds the address of a node that                   *)
(* btc_pool_shift_header has destroyed.                                    *)
(***************************************************************************)
\* btc_pool_shift_header
btc_pool_shift_header(w) ==
  LET node == Head(w.pool.hdr)
      w1 == [w EXCEPT !.pool.hdr = Tail(@)]
  IN IF w1.pool.hdr = <<>> THEN [w1 EXCEPT !.pool.header_next = HNull]
     ELSE IF w1.pool.header_next = HPtr(node)
     THEN [w1 EXCEPT !.pool.header_next.k = "freed"]
     ELSE w1

\* the position in the list of the node header_next names
NextIndex(w) ==
  CHOOSE i \in 1 .. Len(w.pool.hdr) :
    w.pool.hdr[i].hash = w.pool.header_next.hash

\* the first n elements of a sequence
Take(seq, n) == SubSeq(seq, 1, Min(n, Len(seq)))

Hashes(nodes) == [i \in 1 .. Len(nodes) |-> nodes[i].hash]

\* btc_pool_resolve_headers.  Reading the destroyed node is undefined: ub
\* is the outcome, a crash or a read of the node that returns ub.hash for
\* its hash (the old value or what the allocator left there) and then
\* follows its next field into the list.
btc_pool_resolve_headers(w, p, ub) ==
  IF w.pool.header_next.k = "null" THEN btc_pool_request_blocks(w, p, <<>>)
  ELSE IF w.pool.header_next.k = "node"
  THEN LET nodes == Take(SubSeq(w.pool.hdr, NextIndex(w), Len(w.pool.hdr)),
                         MaxInv)
       IN btc_pool_request_blocks(
            [w EXCEPT !.pool.header_next = HPtr(nodes[Len(nodes)])],
            p, Hashes(nodes))
  ELSE IF ub.k = "abort" THEN Abort(w)
  ELSE LET nodes == Take(w.pool.hdr, MaxInv - 1)
       IN btc_pool_request_blocks(
            [w EXCEPT !.pool.header_next =
                        IF nodes = <<>> THEN @ ELSE HPtr(nodes[Len(nodes)])],
            p, <<ub.hash>> \o Hashes(nodes))

\* btc_pool_getblocks: the locator from tip is represented by tip
btc_pool_getblocks(w, p, tip, stop) ==
  btc_peer_send_getblocks(w, p, <<tip>>, stop)

\* btc_pool_resolve_chain that keeps asking for headers at the last
\* checkpoint
btc_pool_resolve_chain_stay(w, p, hash, ub) ==
  IF ~w.pool.checkpoints THEN w
  ELSE IF ~w.peer[p].loader THEN w
  ELSE IF w.peer[p].state # "CONNECTED" THEN w
  ELSE IF w.pool.hdr = <<>> THEN Abort(w)
  ELSE LET node == Head(w.pool.hdr)
       IN IF hash # node.hash THEN btc_peer_close(w, p)
          ELSE IF node.height < last_checkpoint
          THEN IF node.height = Checkpoints[w.pool.header_tip].height
               THEN IF btc_pool_next_tip(node.height) = 0 THEN Abort(w)
                    ELSE LET w1 == [w EXCEPT !.pool.header_tip =
                                      btc_pool_next_tip(node.height)]
                         IN btc_peer_send_getheaders(
                              w1, p, <<hash>>,
                              Checkpoints[w1.pool.header_tip].hash)
               ELSE btc_pool_resolve_headers(btc_pool_shift_header(w), p, ub)
          ELSE btc_peer_send_getheaders(w, p, <<hash>>, NULL)

\* btc_pool_resolve_chain
btc_pool_resolve_chain(w, p, hash, ub) ==
  IF ~w.pool.checkpoints THEN w
  ELSE IF ~w.peer[p].loader THEN w
  ELSE IF w.peer[p].state # "CONNECTED" THEN w
  ELSE IF w.pool.hdr = <<>> THEN Abort(w)
  ELSE LET node == Head(w.pool.hdr)
       IN IF hash # node.hash THEN btc_peer_close(w, p)
          ELSE IF node.height < last_checkpoint
          THEN IF node.height = Checkpoints[w.pool.header_tip].height
               THEN IF btc_pool_next_tip(node.height) = 0 THEN Abort(w)
                    ELSE LET w1 == [w EXCEPT !.pool.header_tip =
                                      btc_pool_next_tip(node.height)]
                         IN btc_peer_send_getheaders(
                              w1, p, <<hash>>,
                              Checkpoints[w1.pool.header_tip].hash)
               ELSE btc_pool_resolve_headers(btc_pool_shift_header(w), p, ub)
          ELSE btc_pool_getblocks(btc_pool_clear_chain(w), p, hash, NULL)

\* a link test that accepts every header
btc_hash_equal_any(a, b) == TRUE

\* btc_hash_equal of the parent hash of a header and the hash of the tail
btc_hash_equal_prev(a, b) == a = b

\* the loop of btc_pool_on_headers over the headers left; the result holds
\* the world, how the loop ended and whether the checkpoint was reached
RECURSIVE HeadersLoop(_, _, _, _)
HeadersLoop(w, p, hdrs, checkpoint) ==
  IF hdrs = <<>> THEN [w |-> w, done |-> TRUE, checkpoint |-> checkpoint]
  ELSE LET hdr == Head(hdrs)
           last == w.pool.hdr[Len(w.pool.hdr)]
           height == last.height + 1
           hash == btc_header_hash(hdr.prev_block, hdr.nonce)
           tip == Checkpoints[w.pool.header_tip]
           node == btc_hdrentry_create(hash, height)
       IN IF ~hdr.valid
          THEN [w |-> btc_peer_increase_ban(w, p, 100), done |-> FALSE,
                checkpoint |-> checkpoint]
          ELSE IF ~btc_hash_equal_prev(hdr.prev_block, last.hash)
          THEN [w |-> btc_peer_close(w, p), done |-> FALSE,
                checkpoint |-> checkpoint]
          ELSE IF height = tip.height /\ hash # tip.hash
          THEN [w |-> btc_peer_close(w, p), done |-> FALSE,
                checkpoint |-> checkpoint]
          ELSE HeadersLoop(
                 [w EXCEPT !.pool.header_next =
                             IF @.k = "null" THEN HPtr(node) ELSE @,
                           !.pool.hdr = Append(@, node)],
                 p, Tail(hdrs), checkpoint \/ height = tip.height)

\* btc_pool_on_headers that requests the blocks after every message, as
\* if each message reached the checkpoint
btc_pool_on_headers_shift(w, p, msg) ==
  LET w1 == [w EXCEPT !.peer[p].gh_time = NULL]
  IN IF ~w1.pool.checkpoints THEN w1
     ELSE IF ~w1.peer[p].loader THEN w1
     ELSE IF Len(msg.headers) = 0 THEN w1
     ELSE IF Len(msg.headers) > MaxHeaders
     THEN btc_peer_increase_ban(w1, p, 100)
     ELSE IF w1.pool.hdr = <<>> THEN Abort(w1)
     ELSE LET r0 == HeadersLoop(w1, p, msg.headers, FALSE)
              r == [r0 EXCEPT !.w.peer[p].block_time =
                                IF r0.done THEN w.now ELSE @]
          IN IF ~r.done THEN r.w
             ELSE btc_pool_resolve_headers(btc_pool_shift_header(r.w), p,
                                           msg.ub)

\* btc_pool_on_headers
btc_pool_on_headers(w, p, msg) ==
  LET w1 == [w EXCEPT !.peer[p].gh_time = NULL]
  IN IF ~w1.pool.checkpoints THEN w1
     ELSE IF ~w1.peer[p].loader THEN w1
     ELSE IF Len(msg.headers) = 0 THEN w1
     ELSE IF Len(msg.headers) > MaxHeaders
     THEN btc_peer_increase_ban(w1, p, 100)
     ELSE IF w1.pool.hdr = <<>> THEN Abort(w1)
     ELSE LET r0 == HeadersLoop(w1, p, msg.headers, FALSE)
              r == [r0 EXCEPT !.w.peer[p].block_time =
                                IF r0.done THEN w.now ELSE @]
              tail == r.w.pool.hdr[Len(r.w.pool.hdr)]
          IN IF ~r.done THEN r.w
             ELSE IF r.checkpoint
             THEN btc_pool_resolve_headers(btc_pool_shift_header(r.w), p,
                                           msg.ub)
             ELSE btc_peer_send_getheaders(
                    r.w, p, <<tail.hash>>,
                    Checkpoints[r.w.pool.header_tip].hash)


(***************************************************************************)
(* Inventory                                                               *)
(***************************************************************************)
\* btc_chain_get_orphan_root: the first orphan of the orphan chain of h
RECURSIVE btc_chain_get_orphan_root(_, _)
btc_chain_get_orphan_root(w, h) ==
  IF h > 0 /\ PrevOf(h) \in w.chain.orphans
  THEN btc_chain_get_orphan_root(w, PrevOf(h))
  ELSE h

\* btc_pool_resolve_orphan
btc_pool_resolve_orphan(w, p, orphan) ==
  btc_peer_send_getblocks(w, p, btc_chain_get_locator(w),
                          btc_chain_get_orphan_root(w, orphan))

\* the loop of btc_pool_on_blockinv from index i on; out collects the
\* hashes to request
RECURSIVE BlockInvLoop(_, _, _, _, _)
BlockInvLoop(w, p, hashes, i, out) ==
  IF i > Len(hashes) THEN [w |-> w, out |-> out]
  ELSE LET hash == hashes[i]
       IN IF btc_chain_has_invalid(w, hash)
          THEN BlockInvLoop(w, p, hashes, i + 1, out)
          ELSE IF btc_chain_has_orphan(w, hash)
          THEN BlockInvLoop(btc_pool_resolve_orphan(w, p, hash), p, hashes,
                            i + 1, out)
          ELSE IF ~btc_chain_has_hash(w, hash)
          THEN BlockInvLoop(w, p, hashes, i + 1, Append(out, hash))
          ELSE IF i = Len(hashes)
          THEN BlockInvLoop(btc_pool_getblocks(w, p, hash, NULL), p, hashes,
                            i + 1, out)
          ELSE BlockInvLoop(w, p, hashes, i + 1, out)

\* btc_pool_on_blockinv
btc_pool_on_blockinv(w, p, hashes) ==
  LET w1 == [w EXCEPT !.peer[p].gb_time = NULL]
  IN IF ~btc_chain_synced(w1) /\ ~w1.peer[p].loader THEN w1
     ELSE IF w1.pool.checkpoints THEN w1
     ELSE LET r == BlockInvLoop(w1, p, hashes, 1, <<>>)
          IN btc_pool_request_blocks(r.w, p, r.out)

\* btc_pool_has_tx
btc_pool_has_tx(w, hash) ==
  hash \in w.mempool.txs \/ hash \in w.mempool.rejects

\* btc_pool_on_txinv
btc_pool_on_txinv(w, p, hashes) ==
  IF ~btc_chain_synced(w) THEN w
  ELSE btc_pool_request_txs(
         w, p, SelectSeq(hashes, LAMBDA h : ~btc_pool_has_tx(w, h)))

ItemsOfType(items, type) ==
  Hashes(SelectSeq(items, LAMBDA it : it.type = type))

\* btc_pool_on_inv
btc_pool_on_inv(w, p, items) ==
  IF Len(items) > MaxInv THEN btc_peer_increase_ban(w, p, 100)
  ELSE LET w1 == [w EXCEPT !.peer[p].inv_filter =
                     @ \cup {items[i].hash : i \in 1 .. Len(items)}]
           blocks == ItemsOfType(items, "block")
           txs == ItemsOfType(items, "tx")
           w2 == IF Len(blocks) > 0 THEN btc_pool_on_blockinv(w1, p, blocks)
                 ELSE w1
       IN IF Len(txs) > 0 THEN btc_pool_on_txinv(w2, p, txs) ELSE w2

(***************************************************************************)
(* Blocks and transactions.  The chain and the mempool are collaborators;  *)
(* what they decide about a block or a transaction (valid or not, with     *)
(* which score, whether the chain is now synced) comes with the message.   *)
(***************************************************************************)
\* the flags of btc_chain_add: the default of a block message and the
\* flags of a block rebuilt from a compact block
BTC_CHAIN_DEFAULT_FLAGS == "DEFAULT_FLAGS"

BTC_CHAIN_VERIFY_BODY == "VERIFY_BODY"

\* btc_chain_add returns 1
ChainAccepts(w, msg) ==
  /\ msg.ok
  /\ msg.hash \notin w.chain.known
  /\ msg.hash \notin w.chain.orphans

\* btc_chain_add: the block joins the chain, or the orphans when its
\* parent is unknown; a rejected block is remembered as invalid
\* chain.flags holds the flags of the last call
btc_chain_add(w0, msg, flags) ==
  LET h == msg.hash
      w == [w0 EXCEPT !.chain.flags = flags]
  IN IF ~ChainAccepts(w, msg)
     THEN IF msg.ok THEN w ELSE [w EXCEPT !.chain.invalid = @ \cup {h}]
     ELSE IF PrevOf(h) \notin w.chain.known
     THEN [w EXCEPT !.chain.orphans = @ \cup {h}]
     ELSE IF HeightOf(h) > w.chain.height
     THEN [w EXCEPT !.chain.known = @ \cup {h},
                    !.chain.tip = h,
                    !.chain.height = HeightOf(h),
                    !.chain.synced = @ \/ msg.synced]
     ELSE [w EXCEPT !.chain.known = @ \cup {h}]

\* btc_peer_reject
btc_peer_reject(w, p, score) ==
  btc_peer_increase_ban(btc_peer_sendmsg(w, p, "reject", <<>>), p, score)

\* btc_pool_add_block with a slip: a block that was not requested is
\* handed to the chain as well
btc_pool_add_block_any(w, p, msg, flags) ==
  LET w0 == btc_pool_resolve_block(w, p, msg.hash)
  IN IF w0.aborted THEN w0 ELSE btc_chain_add(w0, msg, flags)

\* btc_pool_add_block
btc_pool_add_block(w, p, msg, flags) ==
  LET hash == msg.hash
  IN IF hash \notin w.peer[p].block_map THEN btc_peer_close(w, p)
     ELSE LET w0 == btc_pool_resolve_block(w, p, hash)
              w1 == [w0 EXCEPT !.peer[p].block_time =
                                 IF w0.aborted THEN @ ELSE w.now]
              w2 == btc_chain_add(w1, msg, flags)
          IN IF w1.aborted THEN w1
             ELSE IF ~ChainAccepts(w1, msg)
             THEN btc_peer_reject(w2, p, msg.score)
             ELSE IF btc_chain_has_orphan(w2, hash)
             THEN IF w2.pool.checkpoints THEN w2
                  ELSE btc_pool_resolve_orphan(w2, p, hash)
             ELSE LET w3 == IF ~w2.pool.synced /\ btc_chain_synced(w2)
                            THEN btc_pool_resync(
                                   [w2 EXCEPT !.pool.synced = TRUE], FALSE)
                            ELSE w2
                      w4 == btc_pool_resolve_chain(w3, p, hash, msg.ub)
                  IN IF w4.aborted THEN w4
                     ELSE IF btc_chain_synced(w4)
                     THEN btc_pool_announce_block(w4, hash)
                     ELSE w4

\* btc_pool_on_tx: the mempool accepts the transaction, holds it as an
\* orphan that misses msg.missing, or rejects it with msg.score
btc_pool_on_tx(w, p, msg) ==
  LET hash == msg.hash
  IN IF hash \notin w.peer[p].tx_map THEN btc_peer_close(w, p)
     ELSE LET w1 == btc_pool_resolve_tx(w, p, hash)
          IN IF w1.aborted THEN w1
             ELSE IF ~msg.ok \/ btc_pool_has_tx(w1, hash)
             THEN btc_peer_reject(
                    [w1 EXCEPT !.mempool.rejects =
                                 IF msg.ok THEN @ ELSE @ \cup {hash}],
                    p, msg.score)
             ELSE IF msg.missing # <<>>
             THEN btc_pool_request_txs(
                    [w1 EXCEPT !.mempool.orphans = @ \cup {hash}], p,
                    msg.missing)
             ELSE btc_pool_announce(
                    [w1 EXCEPT !.mempool.txs = @ \cup {hash}], "tx", hash)


(***************************************************************************)
(* Compact blocks                                                          *)
(***************************************************************************)
\* btc_peer_on_sendheaders
btc_peer_on_sendheaders(w, p) == [w EXCEPT !.peer[p].prefer_headers = TRUE]

\* btc_peer_on_sendcmpct
btc_peer_on_sendcmpct(w, p, msg) ==
  IF w.peer[p].compact_mode # NULL THEN w
  ELSE IF msg.version > 2 THEN w
  ELSE IF msg.mode > 1 THEN w
  ELSE [w EXCEPT !.peer[p].compact_mode = msg.mode,
                 !.peer[p].compact_witness = (msg.version = 2)]

\* btc_peer_get_full_block
btc_peer_get_full_block(w, p, hash) ==
  btc_peer_senditems(
    w, p, "getdata",
    Items(IF "WITNESS" \in w.peer[p].services THEN "witness_block"
          ELSE "block", <<hash>>))

\* the rest of btc_pool_on_cmpctblock without the attempt to fill the
\* block from the mempool: every block is kept as a partial block
CmpctBlockBody_partial(w, p, msg) ==
  IF ~msg.valid THEN btc_peer_increase_ban(w, p, 100)
  ELSE IF msg.setup = 0 - 1 THEN btc_peer_increase_ban(w, p, 100)
  ELSE IF msg.setup = 0
  THEN btc_peer_increase_ban(btc_peer_get_full_block(w, p, msg.hash), p, 10)
  ELSE IF Cardinality(w.peer[p].compact_map) >= MaxCompact
  THEN btc_peer_close(w, p)
  ELSE IF msg.hash \in w.pool.compact_map THEN Abort(w)
  ELSE btc_peer_sendmsg(
         [w EXCEPT !.pool.compact_map = @ \cup {msg.hash},
                   !.peer[p].compact_map = @ \cup {msg.hash}],
         p, "getblocktxn", <<msg.hash>>)

\* the rest of btc_pool_on_cmpctblock without the limit on the partial
\* blocks of a peer
CmpctBlockBody_nocap(w, p, msg) ==
  IF ~msg.valid THEN btc_peer_increase_ban(w, p, 100)
  ELSE IF msg.setup = 0 - 1 THEN btc_peer_increase_ban(w, p, 100)
  ELSE IF msg.setup = 0
  THEN btc_peer_increase_ban(btc_peer_get_full_block(w, p, msg.hash), p, 10)
  ELSE IF msg.full
  THEN btc_pool_add_block(w, p, msg, BTC_CHAIN_VERIFY_BODY)
  ELSE IF msg.hash \in w.pool.compact_map THEN Abort(w)
  ELSE btc_peer_sendmsg(
         [w EXCEPT !.pool.compact_map = @ \cup {msg.hash},
                   !.peer[p].compact_map = @ \cup {msg.hash}],
         p, "getblocktxn", <<msg.hash>>)

\* btc_pool_on_cmpctblock after the block is registered as requested:
\* msg.setup is the result of btc_cmpct_setup, msg.full the result of
\* btc_cmpct_fill_mempool
CmpctBlockBody(w, p, msg) ==
  IF ~msg.valid THEN btc_peer_increase_ban(w, p, 100)
  ELSE IF msg.setup = 0 - 1 THEN btc_peer_increase_ban(w, p, 100)
  ELSE IF msg.setup = 0
  THEN btc_peer_increase_ban(btc_peer_get_full_block(w, p, msg.hash), p, 10)
  ELSE IF msg.full
  THEN btc_pool_add_block(w, p, msg, BTC_CHAIN_VERIFY_BODY)
  ELSE IF Cardinality(w.peer[p].compact_map) >= MaxCompact
  THEN btc_peer_close(w, p)
  ELSE IF msg.hash \in w.pool.compact_map THEN Abort(w)
  ELSE btc_peer_sendmsg(
         [w EXCEPT !.pool.compact_map = @ \cup {msg.hash},
                   !.peer[p].compact_map = @ \cup {msg.hash}],
         p, "getblocktxn", <<msg.hash>>)

\* btc_pool_on_cmpctblock
btc_pool_on_cmpctblock(w, p, msg) ==
  IF ~w.cfg.bip152_enabled THEN btc_peer_close(w, p)
  ELSE IF ~btc_peer_has_compact_support(w, p) \/ ~btc_peer_has_compact(w, p)
  THEN btc_peer_close(w, p)
  ELSE IF msg.hash \in w.peer[p].compact_map THEN w
  ELSE IF msg.hash \in w.pool.compact_map THEN w
  ELSE IF msg.hash \in w.peer[p].block_map THEN CmpctBlockBody(w, p, msg)
  ELSE IF w.cfg.block_mode # 1 THEN btc_peer_close(w, p)
  ELSE LET w1 == [w EXCEPT !.peer[p].inv_filter = @ \cup {msg.hash}]
       IN IF msg.hash \in w1.pool.block_map THEN Abort(w1)
          ELSE CmpctBlockBody(
                 [w1 EXCEPT !.pool.block_map = @ \cup {msg.hash},
                            !.peer[p].block_map = @ \cup {msg.hash}],
                 p, msg)

\* btc_pool_on_blocktxn without the removal from the set of the pool
btc_pool_on_blocktxn_keep(w, p, msg) ==
  IF msg.hash \notin w.peer[p].compact_map THEN w
  ELSE LET w1 == [w EXCEPT !.peer[p].compact_map = @ \ {msg.hash}]
       IN IF ~msg.full
          THEN btc_peer_increase_ban(
                 btc_peer_get_full_block(w1, p, msg.hash), p, 10)
          ELSE btc_pool_add_block(w1, p, msg, BTC_CHAIN_VERIFY_BODY)

\* btc_pool_on_blocktxn that asks for the full block after a short answer
\* without raising the ban score
btc_pool_on_blocktxn_noban(w, p, msg) ==
  IF msg.hash \notin w.peer[p].compact_map THEN w
  ELSE IF msg.hash \notin w.pool.compact_map THEN Abort(w)
  ELSE LET w1 == [w EXCEPT !.pool.compact_map = @ \ {msg.hash},
                           !.peer[p].compact_map = @ \ {msg.hash}]
       IN IF ~msg.full
          THEN btc_peer_get_full_block(w1, p, msg.hash)
          ELSE btc_pool_add_block(w1, p, msg, BTC_CHAIN_VERIFY_BODY)

\* btc_pool_on_blocktxn: msg.full is the result of btc_cmpct_fill_missing
btc_pool_on_blocktxn(w, p, msg) ==
  IF msg.hash \notin w.peer[p].compact_map THEN w
  ELSE IF msg.hash \notin w.pool.compact_map THEN Abort(w)
  ELSE LET w1 == [w EXCEPT !.pool.compact_map = @ \ {msg.hash},
                           !.peer[p].compact_map = @ \ {msg.hash}]
       IN IF ~msg.full
          THEN btc_peer_increase_ban(
                 btc_peer_get_full_block(w1, p, msg.hash), p, 10)
          ELSE btc_pool_add_block(w1, p, msg, BTC_CHAIN_VERIFY_BODY)


(***************************************************************************)
(* Serving: the answers to getblocks, mempool and getdata.  The socket     *)
(* buffer grows only in a step whose input held names the peer.            *)
(***************************************************************************)
\* the main chain from the genesis block to h
RECURSIVE PathTo(_)
PathTo(h) == IF h = 0 THEN <<0>> ELSE Append(PathTo(PrevOf(h)), h)

\* btc_chain_find_locator: the position in the main chain of the first
\* hash of the locator that is on it, the genesis block if there is none
btc_chain_find_locator(w, locator) ==
  LET main == PathTo(w.chain.tip)
      on == SelectSeq(locator, LAMBDA h : h \in SeqToSet(main))
  IN IF on = <<>> THEN 1
     ELSE CHOOSE i \in 1 .. Len(main) : main[i] = on[1]

\* btc_pool_on_getblocks with a slip: the walk starts at the entry the
\* locator finds, not at its successor
btc_pool_on_getblocks_max_incl(w, p, msg, max) ==
  IF ~btc_chain_synced(w) THEN w
  ELSE LET main == PathTo(w.chain.tip)
           from == btc_chain_find_locator(w, msg.locator)
           rest == SubSeq(main, from, Len(main))
           upto == IF \E i \in 1 .. Len(rest) : rest[i] = msg.stop
                   THEN SubSeq(rest, 1,
                               (CHOOSE i \in 1 .. Len(rest) :
                                  rest[i] = msg.stop) - 1)
                   ELSE rest
           blocks == Take(upto, max)
           w1 == IF Len(blocks) = max
                 THEN [w EXCEPT !.peer[p].hash_continue = blocks[Len(blocks)]]
                 ELSE w
       IN btc_peer_send_inv(w1, p, Items("block", blocks))

\* btc_pool_on_getblocks, with max for the 500 items of one answer
btc_pool_on_getblocks_max(w, p, msg, max) ==
  IF ~btc_chain_synced(w) THEN w
  ELSE LET main == PathTo(w.chain.tip)
           from == btc_chain_find_locator(w, msg.locator)
           rest == SubSeq(main, from + 1, Len(main))
           upto == IF \E i \in 1 .. Len(rest) : rest[i] = msg.stop
                   THEN SubSeq(rest, 1,
                               (CHOOSE i \in 1 .. Len(rest) :
                                  rest[i] = msg.stop) - 1)
                   ELSE rest
           blocks == Take(upto, max)
           w1 == IF Len(blocks) = max
                 THEN [w EXCEPT !.peer[p].hash_continue = blocks[Len(blocks)]]
                 ELSE w
       IN btc_peer_send_inv(w1, p, Items("block", blocks))

\* btc_pool_on_getblocks
btc_pool_on_getblocks(w, p, msg) ==
  btc_pool_on_getblocks_max(w, p, msg, MaxGetblocks)

\* the elements of a set of numbers in increasing order
RECURSIVE SetToSeq(_)
SetToSeq(S) ==
  IF S = {} THEN <<>>
  ELSE LET m == CHOOSE x \in S : \A y \in S : x <= y
       IN <<m>> \o SetToSeq(S \ {m})

\* the loop of btc_pool_on_mempool over the transactions left
RECURSIVE MempoolLoop(_, _, _)
MempoolLoop(w, p, txs) ==
  IF txs = <<>> THEN w
  ELSE IF Len(txs) >= MaxMempoolInv
  THEN MempoolLoop(
         btc_peer_send_inv(w, p, Items("tx", Take(txs, MaxMempoolInv))), p,
         SubSeq(txs, MaxMempoolInv + 1, Len(txs)))
  ELSE btc_peer_send_inv(w, p, Items("tx", txs))

\* btc_pool_on_mempool
btc_pool_on_mempool(w, p) ==
  IF ~btc_chain_synced(w) THEN w
  ELSE IF ~w.cfg.bip37_enabled THEN btc_peer_close(w, p)
  ELSE MempoolLoop(w, p, SetToSeq(w.mempool.txs))

\* one case of the switch of btc_peer_flush_data: the item is served and
\* destroyed, or kept for notfound
ServeItem(w, p, item) ==
  IF item.type \in {"block", "witness_block", "cmpct_block"}
  THEN IF btc_chain_has_hash(w, item.hash)
       THEN [w |-> btc_peer_sendmsg(
                     w, p, IF item.type = "cmpct_block" THEN "cmpctblock"
                           ELSE "block", <<item.hash>>),
             served |-> TRUE]
       ELSE [w |-> w, served |-> FALSE]
  ELSE IF item.type \in TxTypes
  THEN IF item.hash \in w.mempool.txs
       THEN [w |-> btc_peer_sendmsg(w, p, "tx", <<item.hash>>),
             served |-> TRUE]
       ELSE [w |-> w, served |-> FALSE]
  ELSE [w |-> w, served |-> FALSE]

\* the loop of btc_peer_flush_data without the test of the bytes buffered
RECURSIVE FlushDataLoop_nolimit(_, _, _, _, _)
FlushDataLoop_nolimit(w, p, items, nf, intact) ==
  IF items = <<>> THEN [w |-> [w EXCEPT !.peer[p].sending = <<>>], nf |-> nf]
  ELSE IF w.peer[p].state = "DEAD"
  THEN [w |-> [w EXCEPT !.peer[p].sending = items], nf |-> nf]
  ELSE LET item == Head(items)
           r == ServeItem(w, p, item)
           same == /\ r.served => intact
                   /\ item.hash = r.w.peer[p].hash_continue
           w1 == IF same
                 THEN [btc_peer_send_inv_1(r.w, p, "block", r.w.chain.tip)
                         EXCEPT !.peer[p].hash_continue = NULL]
                 ELSE r.w
       IN FlushDataLoop_nolimit(w1, p, Tail(items),
                                IF r.served THEN nf ELSE Append(nf, item),
                                intact)

\* the loop of btc_peer_flush_data over the items left; nf collects the
\* items not found.  The hash of an item is compared with hash_continue
\* after a served item has been destroyed: that read is undefined, and
\* intact tells whether it still returns the hash of the item.
RECURSIVE FlushDataLoop(_, _, _, _, _)
FlushDataLoop(w, p, items, nf, intact) ==
  IF items = <<>> THEN [w |-> [w EXCEPT !.peer[p].sending = <<>>], nf |-> nf]
  ELSE IF \/ w.peer[p].buffered + Len(nf) * NotfoundSize >= ServeLimit
          \/ w.peer[p].state = "DEAD"
  THEN [w |-> [w EXCEPT !.peer[p].sending = items], nf |-> nf]
  ELSE LET item == Head(items)
           r == ServeItem(w, p, item)
           same == /\ r.served => intact
                   /\ item.hash = r.w.peer[p].hash_continue
           w1 == IF same
                 THEN [btc_peer_send_inv_1(r.w, p, "block", r.w.chain.tip)
                         EXCEPT !.peer[p].hash_continue = NULL]
                 ELSE r.w
       IN FlushDataLoop(w1, p, Tail(items),
                        IF r.served THEN nf ELSE Append(nf, item), intact)

\* btc_peer_flush_data
btc_peer_flush_data(w, p, intact) ==
  IF w.peer[p].state # "CONNECTED" THEN w
  ELSE IF w.peer[p].sending = <<>> THEN w
  ELSE LET r == FlushDataLoop(w, p, w.peer[p].sending, <<>>, intact)
       IN IF Len(r.nf) > 0 THEN btc_peer_senditems(r.w, p, "notfound", r.nf)
          ELSE r.w

\* btc_pool_on_getaddr: the addresses of the address manager that the
\* filter of the peer does not hold, MaxAddrList at most
btc_pool_on_getaddr(w, p) ==
  IF w.peer[p].outbound THEN w
  ELSE IF w.peer[p].sent_addr THEN w
  ELSE LET addrs == Take(SetToSeq(w.addrman.addrs \ w.peer[p].addr_filter),
                         MaxAddrList)
           w1 == [w EXCEPT !.peer[p].sent_addr = TRUE,
                           !.peer[p].addr_filter = @ \cup SeqToSet(addrs)]
       IN IF Len(addrs) > 0 THEN btc_peer_sendmsg(w1, p, "addr", addrs)
          ELSE w1

\* the walk of btc_pool_on_getheaders over the entries left: the entry
\* that is the stop is the last one pushed
RECURSIVE HeadersWalk(_, _, _)
HeadersWalk(entries, stop, out) ==
  IF entries = <<>> THEN out
  ELSE IF Head(entries) = stop THEN Append(out, Head(entries))
  ELSE IF Len(out) + 1 = MaxHeaders THEN Append(out, Head(entries))
  ELSE HeadersWalk(Tail(entries), stop, Append(out, Head(entries)))

\* btc_pool_on_getheaders
btc_pool_on_getheaders(w, p, msg) ==
  IF ~btc_chain_synced(w) THEN w
  ELSE LET main == PathTo(w.chain.tip)
           rest == IF Len(msg.locator) > 0
                   THEN SubSeq(main, btc_chain_find_locator(w, msg.locator) + 1,
                               Len(main))
                   ELSE SelectSeq(main, LAMBDA h : h = msg.stop)
       IN btc_peer_sendmsg(w, p, "headers", HeadersWalk(rest, msg.stop, <<>>))

\* btc_pool_on_getblocktxn: msg.stored tells whether btc_chain_get_block
\* finds the data of the block
btc_pool_on_getblocktxn(w, p, msg) ==
  IF ~btc_chain_has_hash(w, msg.hash) THEN btc_peer_increase_ban(w, p, 100)
  ELSE IF HeightOf(msg.hash) < w.chain.height - 15 THEN w
  ELSE IF ~msg.stored
  THEN btc_peer_senditems(w, p, "notfound", Items("block", <<msg.hash>>))
  ELSE btc_peer_sendmsg(w, p, "blocktxn", <<msg.hash>>)

\* btc_pool_on_getdata without the limit on the length of the message
btc_pool_on_getdata_nolimit(w, p, msg) ==
  btc_peer_flush_data(
    [w EXCEPT !.peer[p].sending = @ \o msg.items], p, msg.intact)

\* btc_pool_on_getdata
btc_pool_on_getdata(w, p, msg) ==
  IF Len(msg.items) > MaxInv THEN btc_peer_increase_ban(w, p, 100)
  ELSE btc_peer_flush_data(
         [w EXCEPT !.peer[p].sending = @ \o msg.items], p, msg.intact)

(***************************************************************************)
(* Message dispatch                                                        *)
(***************************************************************************)
\* btc_peer_send_pong
btc_peer_send_pong(w, p, nonce) == btc_peer_sendmsg(w, p, "pong", <<nonce>>)

\* btc_peer_on_ping
btc_peer_on_ping(w, p, msg) ==
  IF msg.nonce = 0 THEN w ELSE btc_peer_send_pong(w, p, msg.nonce)

\* btc_peer_on_pong
btc_peer_on_pong(w, p, msg) ==
  LET q == w.peer[p]
  IN IF q.challenge = 0 THEN w
     ELSE IF msg.nonce # q.challenge
     THEN IF msg.nonce = 0 THEN [w EXCEPT !.peer[p].challenge = 0] ELSE w
     ELSE IF w.now >= q.last_ping
     THEN LET rtt == w.now - q.last_ping
              first == IF q.min_ping = NULL THEN rtt ELSE q.min_ping
          IN [w EXCEPT !.peer[p].last_pong = w.now,
                       !.peer[p].min_ping = IF rtt < first THEN rtt ELSE first,
                       !.peer[p].challenge = 0]
     ELSE [w EXCEPT !.peer[p].challenge = 0]

\* btc_pool_on_msg
btc_pool_on_msg(w, p, msg) ==
  IF w.peer[p].state = "DEAD" THEN w
  ELSE CASE msg.type = "version" -> btc_pool_on_version(w, p, msg)
         [] msg.type = "inv" -> btc_pool_on_inv(w, p, msg.items)
         [] msg.type = "getdata" -> btc_pool_on_getdata(w, p, msg)
         [] msg.type = "notfound" -> btc_pool_on_notfound(w, p, msg.items)
         [] msg.type = "getaddr" -> btc_pool_on_getaddr(w, p)
         [] msg.type = "getblocks" -> btc_pool_on_getblocks(w, p, msg)
         [] msg.type = "getheaders" -> btc_pool_on_getheaders(w, p, msg)
         [] msg.type = "headers" -> btc_pool_on_headers(w, p, msg)
         [] msg.type = "block" ->
              btc_pool_add_block(w, p, msg, BTC_CHAIN_DEFAULT_FLAGS)
         [] msg.type = "tx" -> btc_pool_on_tx(w, p, msg)
         [] msg.type = "mempool" -> btc_pool_on_mempool(w, p)
         [] msg.type = "cmpctblock" -> btc_pool_on_cmpctblock(w, p, msg)
         [] msg.type = "getblocktxn" -> btc_pool_on_getblocktxn(w, p, msg)
         [] msg.type = "blocktxn" -> btc_pool_on_blocktxn(w, p, msg)
         [] OTHER -> w

\* btc_peer_on_msg
btc_peer_on_msg(w, p, msg) ==
  IF w.peer[p].state = "DEAD" THEN w
  ELSE LET w1 == CASE msg.type = "version" -> btc_peer_on_version(w, p, msg)
                   [] msg.type = "verack" -> btc_peer_on_verack(w, p)
                   [] msg.type = "ping" -> btc_peer_on_ping(w, p, msg)
                   [] msg.type = "pong" -> btc_peer_on_pong(w, p, msg)
                   [] msg.type = "sendheaders" ->
                        btc_peer_on_sendheaders(w, p)
                   [] msg.type = "sendcmpct" ->
                        btc_peer_on_sendcmpct(w, p, msg)
                   [] OTHER -> w
       IN IF w1.aborted THEN w1 ELSE btc_pool_on_msg(w1, p, msg)

(***************************************************************************)
(* Framing.  A byte is a number in 0 .. 255 and a buffer is a sequence of  *)
(* bytes.  A 32-bit field is kept as its four bytes in little-endian       *)
(* order; U32 gives the bytes of a small number.                           *)
(***************************************************************************)
\* btc_uint32_write
U32(n) == <<n % 256, (n \div 256) % 256, (n \div 65536) % 256, 0>>

\* read32le(data + off)
read32le(data, off) == SubSeq(data, off + 1, off + 4)

\* read32le(..) > n, for n below 65536
U32Above(b, n) == b[3] # 0 \/ b[4] # 0 \/ b[1] + 256 * b[2] > n

\* the number of a field that is not above 65535
U32Value(b) == b[1] + 256 * b[2]

\* peer->network->magic (the main network)
Magic == <<249, 190, 180, 217>>

\* the first four bytes of btc_hash256: a digest of the length and of
\* every byte in its place
RECURSIVE Digest(_, _)
Digest(data, h) ==
  IF data = <<>> THEN h
  ELSE Digest(Tail(data), (h * 31 + Head(data) + 1) % 65521)

btc_hash256(data) ==
  LET h == Digest(data, 1)
  IN <<h % 256, h \div 256, Len(data) % 256, 0>>

\* btc_peer_send: the frame of the message with command cmd (its bytes
\* without the terminating NUL) and body
btc_peer_send(magic, cmd, body) ==
  magic \o cmd \o [i \in 1 .. (CommandSize - Len(cmd)) |-> 0]
    \o U32(Len(body)) \o btc_hash256(body) \o body

\* btc_parser_parse_header: the number of command bytes before the first
\* NUL, 12 if there is none
CmdLen(data) ==
  LET nul == {i \in 0 .. (CommandSize - 1) : data[i + 5] = 0}
  IN IF nul = {} THEN CommandSize
     ELSE CHOOSE i \in nul : \A j \in nul : i <= j

\* btc_parser_parse_header: the result and the parser after it
btc_parser_parse_header(parser, data) ==
  LET i == CmdLen(data)
      cmd == SubSeq(data, 5, 4 + i)
      size == read32le(data, 16)
  IN IF read32le(data, 0) # Magic THEN [ok |-> FALSE, parser |-> parser]
     ELSE IF i = CommandSize THEN [ok |-> FALSE, parser |-> parser]
     ELSE IF \E k \in 1 .. i : cmd[k] < 32 \/ cmd[k] > 126
     THEN [ok |-> FALSE, parser |-> [parser EXCEPT !.cmd = cmd]]
     ELSE IF U32Above(size, MaxMessage)
     THEN [ok |-> FALSE, parser |-> [parser EXCEPT !.cmd = cmd]]
     ELSE [ok |-> TRUE,
           parser |-> [parser EXCEPT !.cmd = cmd,
                                     !.waiting = U32Value(size),
                                     !.checksum = read32le(data, 20),
                                     !.has_header = TRUE]]

\* btc_msg_set_cmd, btc_msg_import: the commands of the model are not
\* commands of the protocol; the message is of type unknown and keeps
\* the command and the bytes of the body
btc_msg_import(cmd, data) == [type |-> "unknown", cmd |-> cmd, body |-> data]

\* the on_msg callback of the parser: btc_peer_on_msg; the message is added
\* to the list of messages emitted, with the number of bytes read so far
parser_on_msg(w, p, msg) ==
  btc_peer_on_msg(
    [w EXCEPT !.emitted = Append(@, [cmd |-> msg.cmd, body |-> msg.body,
                                     at |-> w.input.fed])], p, msg)

\* btc_parser_parse: the result and the world after it
btc_parser_parse(w, p, data) ==
  LET parser == w.peer[p].parser
  IN IF Len(data) > MaxMessage THEN [ok |-> FALSE, w |-> Abort(w)]
     ELSE IF ~parser.has_header
     THEN IF Len(data) # HeaderSize THEN [ok |-> FALSE, w |-> Abort(w)]
          ELSE LET r == btc_parser_parse_header(parser, data)
               IN [ok |-> r.ok, w |-> [w EXCEPT !.peer[p].parser = r.parser]]
     ELSE LET w1 == [w EXCEPT !.peer[p].parser.waiting = HeaderSize,
                              !.peer[p].parser.has_header = FALSE]
          IN IF read32le(btc_hash256(data), 0) # parser.checksum
             THEN [ok |-> FALSE, w |-> w1]
             ELSE [ok |-> TRUE,
                   w |-> parser_on_msg(w1, p,
                                       btc_msg_import(parser.cmd, data))]

\* btc_parser_feed: the loop over the bytes pending
RECURSIVE FeedLoop(_, _, _)
FeedLoop(w, p, buf) ==
  IF \/ w.aborted
     \/ w.peer[p].closed
     \/ Len(buf) < w.peer[p].parser.waiting
  THEN [w EXCEPT !.peer[p].parser.pending = buf]
  ELSE LET wait == w.peer[p].parser.waiting
           r == btc_parser_parse(w, p, SubSeq(buf, 1, wait))
           w1 == IF ~r.ok /\ ~r.w.aborted /\ ~r.w.peer[p].closed
                 THEN btc_peer_on_parse_error(r.w, p)
                 ELSE r.w
       IN FeedLoop(w1, p, SubSeq(buf, wait + 1, Len(buf)))

\* btc_parser_append
btc_parser_append(w, p, data) ==
  IF w.peer[p].closed THEN w.peer[p].parser.pending
  ELSE w.peer[p].parser.pending \o data

\* btc_parser_feed with a slip: the bytes left over are not kept
btc_parser_feed_drop(w, p, data) ==
  [FeedLoop(w, p, btc_parser_append(w, p, data))
     EXCEPT !.peer[p].parser.pending = <<>>]

\* btc_parser_feed
btc_parser_feed(w, p, data) == FeedLoop(w, p, btc_parser_append(w, p, data))

\* btc_peer_on_data
btc_peer_on_data(w, p, data) ==
  IF w.peer[p].state = "DEAD" THEN w
  ELSE btc_parser_feed([w EXCEPT !.peer[p].last_recv = w.now], p, data)

(***************************************************************************)
(* Timers.  Times are in milliseconds as btc_ms returns them.  The request *)
(* tables of the model hold hashes without the time of the request, so     *)
(* whether an entry of a table of the peer is older than its limit is an   *)
(* input of the tick (stale), possible only when a table has an entry.     *)
(***************************************************************************)
\* btc_nonce: the draw of the step
btc_nonce(w) == w.rnd

\* btc_peer_send_ping: challenge is the nonce outstanding, 0 for none
btc_peer_send_ping(w, p) ==
  IF w.peer[p].version <= BTC_NET_PONG_VERSION
  THEN btc_peer_sendmsg(w, p, "ping", <<0>>)
  ELSE IF w.peer[p].challenge # 0 THEN w
  ELSE btc_peer_sendmsg([w EXCEPT !.peer[p].last_ping = w.now,
                                  !.peer[p].challenge = btc_nonce(w)],
                        p, "ping", <<btc_nonce(w)>>)

\* btc_peer_maybe_timeout without the test of the last receive
btc_peer_maybe_timeout_norecv(w, p, stale) ==
  LET q == w.peer[p]
      synced == btc_chain_synced(w)
  IN IF ~synced /\ q.gb_time # NULL /\ w.now > q.gb_time + 30000
     THEN btc_peer_close(w, p)
     ELSE IF q.gh_time # NULL /\ w.now > q.gh_time + 60000
     THEN btc_peer_close(w, p)
     ELSE IF q.syncing /\ q.loader /\ ~synced
             /\ w.now > q.block_time + 120000
     THEN btc_peer_close(w, p)
     ELSE IF (synced \/ ~q.syncing) /\ stale
     THEN btc_peer_close(w, p)
     ELSE IF w.now > q.time + 60000
     THEN IF q.last_recv = 0 \/ q.last_send = 0 THEN btc_peer_close(w, p)
          ELSE IF w.now > q.last_send + 20 * 60000 THEN btc_peer_close(w, p)
          ELSE IF q.challenge # 0 /\ w.now > q.last_ping + 20 * 60000
          THEN btc_peer_close(w, p)
          ELSE w
     ELSE w

\* btc_peer_maybe_timeout with the limit of the last receive not
\* multiplied for a peer without pong
btc_peer_maybe_timeout_nomult(w, p, stale) ==
  LET q == w.peer[p]
      synced == btc_chain_synced(w)
  IN IF ~synced /\ q.gb_time # NULL /\ w.now > q.gb_time + 30000
     THEN btc_peer_close(w, p)
     ELSE IF q.gh_time # NULL /\ w.now > q.gh_time + 60000
     THEN btc_peer_close(w, p)
     ELSE IF q.syncing /\ q.loader /\ ~synced
             /\ w.now > q.block_time + 120000
     THEN btc_peer_close(w, p)
     ELSE IF (synced \/ ~q.syncing) /\ stale
     THEN btc_peer_close(w, p)
     ELSE IF w.now > q.time + 60000
     THEN IF q.last_recv = 0 \/ q.last_send = 0 THEN btc_peer_close(w, p)
          ELSE IF w.now > q.last_send + 20 * 60000 THEN btc_peer_close(w, p)
          ELSE IF w.now > q.last_recv + 20 * 60000
          THEN btc_peer_close(w, p)
          ELSE IF q.challenge # 0 /\ w.now > q.last_ping + 20 * 60000
          THEN btc_peer_close(w, p)
          ELSE w
     ELSE w

\* btc_peer_maybe_timeout
btc_peer_maybe_timeout(w, p, stale) ==
  LET q == w.peer[p]
      synced == btc_chain_synced(w)
      mult == IF q.version <= BTC_NET_PONG_VERSION THEN 4 ELSE 1
  IN IF ~synced /\ q.gb_time # NULL /\ w.now > q.gb_time + 30000
     THEN btc_peer_close(w, p)
     ELSE IF q.gh_time # NULL /\ w.now > q.gh_time + 60000
     THEN btc_peer_close(w, p)
     ELSE IF q.syncing /\ q.loader /\ ~synced
             /\ w.now > q.block_time + 120000
     THEN btc_peer_close(w, p)
     ELSE IF (synced \/ ~q.syncing) /\ stale
     THEN btc_peer_close(w, p)
     ELSE IF w.now > q.time + 60000
     THEN IF q.last_recv = 0 \/ q.last_send = 0 THEN btc_peer_close(w, p)
          ELSE IF w.now > q.last_send + 20 * 60000 THEN btc_peer_close(w, p)
          ELSE IF w.now > q.last_recv + 20 * 60000 * mult
          THEN btc_peer_close(w, p)
          ELSE IF q.challenge # 0 /\ w.now > q.last_ping + 20 * 60000
          THEN btc_peer_close(w, p)
          ELSE w
     ELSE w

\* btc_peer_on_tick without the limit on the handshake
btc_peer_on_tick_nolimit(w, p, stale) ==
  IF w.peer[p].state # "CONNECTED" THEN w
  ELSE LET w1 == IF w.now >= w.peer[p].ping_timer + 30000
                 THEN [btc_peer_send_ping(w, p)
                         EXCEPT !.peer[p].ping_timer = w.now]
                 ELSE w
           w2 == IF w1.now >= w1.peer[p].inv_timer + 5000
                 THEN [btc_peer_flush_inv(w1, p)
                         EXCEPT !.peer[p].inv_timer = w.now]
                 ELSE w1
           w3 == IF w2.now >= w2.peer[p].stall_timer + 5000
                 THEN [btc_peer_maybe_timeout(w2, p, stale)
                         EXCEPT !.peer[p].stall_timer = w.now]
                 ELSE w2
           w4 == btc_peer_flush_data(w3, p, TRUE)
       IN IF w4.peer[p].buffered > DrainLimit THEN btc_peer_close(w4, p)
          ELSE w4

\* btc_peer_on_tick
btc_peer_on_tick(w, p, stale) ==
  IF w.peer[p].state = "DEAD" THEN w
  ELSE IF w.peer[p].state # "CONNECTED"
  THEN IF w.now > w.peer[p].time + 5000 THEN btc_peer_close(w, p) ELSE w
  ELSE LET w1 == IF w.now >= w.peer[p].ping_timer + 30000
                 THEN [btc_peer_send_ping(w, p)
                         EXCEPT !.peer[p].ping_timer = w.now]
                 ELSE w
           w2 == IF w1.now >= w1.peer[p].inv_timer + 5000
                 THEN [btc_peer_flush_inv(w1, p)
                         EXCEPT !.peer[p].inv_timer = w.now]
                 ELSE w1
           w3 == IF w2.now >= w2.peer[p].stall_timer + 5000
                 THEN [btc_peer_maybe_timeout(w2, p, stale)
                         EXCEPT !.peer[p].stall_timer = w.now]
                 ELSE w2
           w4 == btc_peer_flush_data(w3, p, TRUE)
       IN IF w4.peer[p].buffered > DrainLimit THEN btc_peer_close(w4, p)
          ELSE w4

\* btc_peer_on_drain
btc_peer_on_drain(w, p) ==
  IF w.peer[p].state = "DEAD" THEN w ELSE btc_peer_flush_data(w, p, TRUE)

\* btc_peer_on_error
btc_peer_on_error(w, p) == btc_peer_close(w, p)

\* the loop of on_tick over the peers of the list from index i on; stale
\* is the set of peers with a request older than its limit
RECURSIVE PeersOnTick(_, _, _)
PeersOnTick(w, stale, i) ==
  IF i > Len(w.pool.list) THEN w
  ELSE PeersOnTick(btc_peer_on_tick(w, w.pool.list[i],
                                    w.pool.list[i] \in stale),
                   stale, i + 1)

\* btc_pool_on_tick: the worlds after the refill, one for each address
\* and nonce drawn
btc_pool_on_tick(w) ==
  IF w.now >= w.pool.refill_timer + 3000
  THEN {[w1 EXCEPT !.pool.refill_timer = w.now] :
          w1 \in btc_pool_fill_outbound(w)}
  ELSE {w}

(***************************************************************************)
(* Events.  Every event is one callback of the event loop, run to          *)
(* completion.  F is the set of peers whose socket write fails during the  *)
(* callback.                                                               *)
(***************************************************************************)
WFails == {{}} \cup {{q} : q \in pool.ids}

\* on_tick, refill timer due: btc_pool_on_tick
on_tick_refill(F) ==
  /\ ~aborted
  /\ \E w \in btc_pool_fill_outbound(World(F)) : Store(w)

\* on_tick, connect or stall timer of p due: btc_peer_on_tick closes p
on_tick_stall(p) ==
  /\ ~aborted
  /\ peer[p].live
  /\ peer[p].state # "DEAD"
  /\ Store(btc_peer_close(World({}), p))

\* on_tick, inv timer of p due: btc_peer_on_tick flushes the queue of
\* announcements and the data requested
on_tick_inv(p, F, intact) ==
  /\ ~aborted
  /\ peer[p].live
  /\ peer[p].state = "CONNECTED"
  /\ Store(btc_peer_flush_data(btc_peer_flush_inv(World(F), p), p, intact))

\* on_socket: an inbound connection from address a
on_socket(a, n) ==
  /\ ~aborted
  /\ CanCreate(World({}))
  /\ n \notin pool.nonces
  /\ Store(btc_pool_on_socket(World({}), a, n))

\* on_connect: the socket of p is connected
on_connect(p, F) ==
  /\ ~aborted
  /\ peer[p].live
  /\ peer[p].sock = "connecting"
  /\ Store(btc_peer_on_connect(
             [World(F) EXCEPT !.peer[p].sock = "open"], p))

\* on_msg: one message parsed from the socket of p
on_msg(p, msg, F) ==
  /\ ~aborted
  /\ peer[p].live
  /\ peer[p].sock = "open"
  /\ Store(btc_peer_on_msg(World(F), p, msg))

\* the bytes of the frames of a stream, in order
RECURSIVE Stream(_)
Stream(frames) ==
  IF frames = <<>> THEN <<>>
  ELSE Head(frames).bytes \o Stream(Tail(frames))

\* on_data: the next n bytes of the stream of its remote peer are read from
\* the socket of p and fed to the parser
on_data(p, n) ==
  /\ ~aborted
  /\ peer[p].live
  /\ peer[p].sock = "open"
  /\ input.p = p
  /\ input.fed + n <= Len(Stream(input.frames))
  /\ Store(btc_peer_on_data(
             [World({}) EXCEPT !.input.fed = @ + n], p,
             SubSeq(Stream(input.frames), input.fed + 1, input.fed + n)))

\* on_parse_error: the parser fails on the bytes read from the socket of p
on_parse_error(p) ==
  /\ ~aborted
  /\ peer[p].live
  /\ peer[p].sock = "open"
  /\ Store(btc_peer_on_parse_error(World({}), p))

\* on_msg for an addr message
on_addr(p, msg) ==
  /\ ~aborted
  /\ peer[p].live
  /\ peer[p].sock = "open"
  /\ peer[p].state # "DEAD"
  /\ \E w \in btc_pool_on_addr(World({}), p, msg) : Store(w)

\* on_msg for a getblocks message, with max for the 500 items of an answer
on_getblocks(p, msg, max) ==
  /\ ~aborted
  /\ peer[p].live
  /\ peer[p].sock = "open"
  /\ peer[p].state # "DEAD"
  /\ Store(btc_pool_on_getblocks_max(World({}), p, msg, max))

\* on_disconnect: the socket of p is gone
on_disconnect(p) ==
  /\ ~aborted
  /\ peer[p].live
  /\ Store(btc_pool_on_disconnect(World({}), p))

(***************************************************************************)
(* Initial state: btc_pool_create and btc_pool_open                        *)
(***************************************************************************)
InitChain(synced) ==
  [tip |-> 0, height |-> 0, synced |-> synced, known |-> {0},
   orphans |-> {}, invalid |-> {}, flags |-> "none"]

InitPool ==
  [nonces |-> {}, block_map |-> {}, tx_map |-> {},
   compact_map |-> {}, checkpoints |-> FALSE, header_tip |-> 0,
   hdr |-> <<>>, header_next |-> HNull, synced |-> FALSE, map |-> {},
   ids |-> {}, list |-> <<>>, load |-> NULL, inbound |-> 0, outbound |-> 0,
   refill_timer |-> 0, max_outbound |-> max_outbound]

\* the world after btc_pool_open under configuration c
btc_pool_open(c, synced, addrs) ==
  btc_pool_reset_chain(
    [cfg |-> c, pool |-> [InitPool EXCEPT !.synced = synced],
     peer |-> [q \in PeerIds |-> NoPeer], chain |-> InitChain(synced),
     mempool |-> [txs |-> {}, rejects |-> {}, orphans |-> {}],
     addrman |-> [addrs |-> addrs, banned |-> {}], sent |-> <<>>,
     aborted |-> FALSE, wfail |-> {}, now |-> 0, rnd |-> 1, held |-> {},
     loopback |-> NoLoopback,
     input |-> NoInput, emitted |-> <<>>])

Configs ==
  [checkpoints_enabled : BOOLEAN, bip37_enabled : BOOLEAN,
   bip152_enabled : BOOLEAN, block_mode : {0, 1}, self_connect : BOOLEAN,
   request_mempool : BOOLEAN, min_version : {BTC_NET_MIN_VERSION}]

(***************************************************************************)
(* Handshake and loader selection                                          *)
(***************************************************************************)
VersionMsgs ==
  [type : {"version"},
   version : {BTC_NET_MIN_VERSION - 1, BTC_NET_COMPACT_WITNESS_VERSION},
   services : {{"NETWORK", "WITNESS"}, {"NETWORK"}},
   no_relay : {FALSE}, nonce : 0 .. MaxNonce]

HandshakeMsgs == VersionMsgs \cup {[type |-> "verack"]}

InitHandshake ==
  \E c \in Configs, synced \in BOOLEAN :
    /\ ~c.bip37_enabled /\ ~c.bip152_enabled /\ c.block_mode = 0
    /\ ~c.request_mempool /\ ~c.self_connect /\ c.checkpoints_enabled
    /\ Load(btc_pool_open(c, synced, Addrs))

NextHandshake ==
  \/ \E F \in WFails : on_tick_refill(F)
  \/ \E p \in PeerIds : on_tick_stall(p)
  \/ \E a \in Addrs, n \in NonceVals : on_socket(a, n)
  \/ \E p \in PeerIds, F \in WFails : on_connect(p, F)
  \/ \E p \in PeerIds, msg \in HandshakeMsgs, F \in WFails :
       on_msg(p, msg, F)
  \/ \E p \in PeerIds : on_disconnect(p)

SpecHandshake == InitHandshake /\ [][NextHandshake]_vars

(***************************************************************************)
(* Block and transaction download between two peers that have completed    *)
(* the handshake: the loader (outbound) and an inbound peer.  The initial  *)
(* states are built with the handlers above: open the pool, dial the       *)
(* loader, accept the inbound connection, exchange version and verack.     *)
(***************************************************************************)
GoodVersion ==
  [type |-> "version", version |-> BTC_NET_COMPACT_WITNESS_VERSION,
   services |-> {"NETWORK", "WITNESS"}, no_relay |-> FALSE, nonce |-> 0]

\* the worlds after the refill tick that dials the loader at address 1
\* with nonce 1 and no other peer
WithLoader(w) ==
  {dialed \in btc_pool_fill_outbound(w) :
     /\ dialed.pool.list = <<0>>
     /\ dialed.peer[0].addr = 1
     /\ dialed.peer[0].nonce = 1}

\* sendcmpct of a peer that announces with compact blocks (version 2)
SendCmpct == [type |-> "sendcmpct", version |-> 2, mode |-> 1]

\* the world after the callbacks of the list events have run in order
RECURSIVE Deliver(_, _)
Deliver(w, events) ==
  IF events = <<>> THEN w
  ELSE LET e == Head(events)
           w1 == CASE e.ev = "connect" ->
                        btc_peer_on_connect(
                          [w EXCEPT !.peer[e.p].sock = "open"], e.p)
                   [] e.ev = "socket" -> btc_pool_on_socket(w, e.addr, e.nonce)
                   [] e.ev = "msg" -> btc_peer_on_msg(w, e.p, e.msg)
                   [] e.ev = "data" ->
                        btc_peer_on_msg(
                          [w EXCEPT !.peer[e.p].last_recv = w.now], e.p, e.msg)
       IN Deliver(w1, Tail(events))

\* peer p sends version and verack
Shake(p) ==
  <<[ev |-> "msg", p |-> p, msg |-> GoodVersion],
    [ev |-> "msg", p |-> p, msg |-> [type |-> "verack"]]>>

\* the socket of the loader connects and it completes the handshake, an
\* inbound peer connects from address 2 and completes the handshake; with
\* compact blocks enabled both send sendcmpct
Handshakes(c) ==
  <<[ev |-> "connect", p |-> 0]>> \o Shake(0)
    \o <<[ev |-> "socket", addr |-> 2, nonce |-> 2]>> \o Shake(1)
    \o (IF c.bip152_enabled
        THEN <<[ev |-> "msg", p |-> 0, msg |-> SendCmpct],
               [ev |-> "msg", p |-> 1, msg |-> SendCmpct]>>
        ELSE <<>>)

\* the loader and an inbound peer from address 2, both CONNECTED
TwoPeers(c, synced) ==
  {[Deliver(dialed, Handshakes(c)) EXCEPT !.sent = <<>>] :
     dialed \in WithLoader(btc_pool_open(c, synced, Addrs))}

\* the configurations of the download scenarios: plain block download,
\* headers-first download up to the last checkpoint, and compact blocks
\* in high-bandwidth mode
PlainCfg ==
  [checkpoints_enabled |-> FALSE, bip37_enabled |-> FALSE,
   bip152_enabled |-> FALSE, block_mode |-> 0, self_connect |-> FALSE,
   request_mempool |-> FALSE, min_version |-> BTC_NET_MIN_VERSION]

CheckpointCfg == [PlainCfg EXCEPT !.checkpoints_enabled = TRUE]

CompactCfg == [PlainCfg EXCEPT !.bip152_enabled = TRUE, !.block_mode = 1]

\* the outcomes of a read of a destroyed header node: the process
\* crashes, or the read returns the old hash or another value
NoUB == [k |-> "abort"]

UBs == {NoUB, [k |-> "read", hash |-> 3], [k |-> "read", hash |-> 9]}

\* block hashes of the plain scenario: 1 extends the genesis block, 3
\* extends 1; a transaction hash
SyncBlocks == {1, 3}

SyncTxs == {101}

SyncItems ==
  [type : {"block"}, hash : SyncBlocks] \cup [type : {"tx"}, hash : SyncTxs]

SyncMsgs ==
  {[type |-> "inv", items |-> <<it>>] : it \in SyncItems}
    \cup {[type |-> "inv", items |-> <<[type |-> "block", hash |-> 1], it>>] :
            it \in SyncItems}
    \cup {[type |-> "inv",
           items |-> [i \in 1 .. (MaxInv + 1) |->
                        [type |-> "block", hash |-> 1]]]}
    \cup {[type |-> "notfound", items |-> <<it>>] : it \in SyncItems}
    \cup [type : {"block"}, hash : SyncBlocks, ok : BOOLEAN, score : {100},
          synced : BOOLEAN, ub : {NoUB}]
    \cup [type : {"tx"}, hash : SyncTxs, ok : BOOLEAN, score : {100},
          missing : {<<>>}]

\* a header with parent prev and nonce s
Hdr(prev, s) == [prev_block |-> prev, nonce |-> s, valid |-> TRUE]

\* header lists: the chain 1, 3, 7 through both checkpoints in one or two
\* messages, a list that runs past the first checkpoint, a fork, a wrong checkpoint, a gap, a header that fails
\* verification, an empty list and a list that is too long
HeaderLists ==
  {<<Hdr(0, 0)>>, <<Hdr(0, 1)>>, <<Hdr(1, 0)>>, <<Hdr(1, 1)>>, <<Hdr(3, 0)>>,
   <<Hdr(0, 0), Hdr(1, 0)>>, <<Hdr(0, 0), Hdr(3, 0)>>,
   <<Hdr(1, 0), Hdr(3, 0)>>,
   <<[Hdr(0, 0) EXCEPT !.valid = FALSE]>>, <<>>,
   [i \in 1 .. (MaxHeaders + 1) |-> Hdr(0, 0)]}

CheckpointBlocks == {1, 3, 7}

CheckpointMsgs ==
  [type : {"headers"}, headers : HeaderLists, ub : UBs]
    \cup [type : {"block"}, hash : CheckpointBlocks, ok : BOOLEAN,
          score : {100}, synced : {FALSE}, ub : UBs]
    \cup {[type |-> "inv", items |-> <<[type |-> "block", hash |-> 1]>>]}

\* compact blocks 1 and 2 extend the genesis block, 3 and 4 extend 1;
\* block 1 can be completed, the others stay short of transactions.  The
\* loader sends every message; the inbound peer sends compact blocks 1 and
\* 2 and completes block 1.
CompactBlocks == {1, 2, 3, 4}

CompactBlock(h, valid, setup, full) ==
  [type |-> "cmpctblock", hash |-> h, valid |-> valid, setup |-> setup,
   full |-> full, ok |-> TRUE, score |-> 100, synced |-> TRUE, ub |-> NoUB]

BlockTxn(type, h, full) ==
  [type |-> type, hash |-> h, full |-> full, ok |-> TRUE, score |-> 100,
   synced |-> TRUE, ub |-> NoUB]

CompactMsgs(p) ==
  IF p = 0
  THEN {CompactBlock(h, TRUE, setup, FALSE) :
          h \in CompactBlocks, setup \in {0, 1}}
         \cup {CompactBlock(1, FALSE, 1, FALSE), CompactBlock(1, TRUE, 0 - 1, FALSE),
               CompactBlock(1, TRUE, 1, TRUE)}
         \cup {BlockTxn("blocktxn", h, FALSE) : h \in CompactBlocks}
         \cup {BlockTxn("blocktxn", 1, TRUE), BlockTxn("block", 1, TRUE)}
  ELSE {CompactBlock(h, TRUE, 1, FALSE) : h \in {1, 2}}
         \cup {BlockTxn("blocktxn", 1, TRUE)}

\* the messages peer p sends in the scenario of configuration c
MsgsOf(c, p) ==
  IF c.checkpoints_enabled THEN CheckpointMsgs
  ELSE IF c.bip152_enabled THEN CompactMsgs(p)
  ELSE SyncMsgs

InitSync ==
  \E c \in {PlainCfg, CheckpointCfg, CompactCfg}, synced \in BOOLEAN :
    /\ c.checkpoints_enabled => ~synced
    /\ c.bip152_enabled => synced
    /\ \E two \in TwoPeers(c, synced) : Load(two)

NextSync ==
  \/ \E p \in PeerIds, F \in WFails :
       \E msg \in MsgsOf(cfg, p) : on_msg(p, msg, F)
  \/ \E p \in PeerIds : on_tick_stall(p)
  \/ \E p \in PeerIds : on_disconnect(p)

SpecSync == InitSync /\ [][NextSync]_vars

(***************************************************************************)
(* Announcements and answers between two peers on a synced chain: blocks   *)
(* and transactions arrive and are announced, the peers ask for the chain, *)
(* the mempool and the data.  bip37 is enabled, so that the mempool        *)
(* request is answered.                                                    *)
(***************************************************************************)
InvTxs == {101, 102}

InvMsgs ==
  {[type |-> "inv", items |-> <<it>>] :
     it \in [type : {"block"}, hash : {1}] \cup [type : {"tx"}, hash : InvTxs]}
    \cup [type : {"block"}, hash : {1}, ok : {TRUE}, score : {100},
          synced : {TRUE}, ub : {NoUB}]
    \cup [type : {"tx"}, hash : InvTxs, ok : {TRUE}, score : {100},
          missing : {<<>>}]
    \cup [type : {"getblocks"}, locator : {<<0>>, <<1>>}, stop : {NULL, 1}]
    \cup {[type |-> "mempool"]}
    \cup [type : {"getdata"},
          items : {<<[type |-> "block", hash |-> 1]>>,
                   <<[type |-> "tx", hash |-> 101]>>,
                   <<[type |-> "block", hash |-> 3]>>},
          intact : BOOLEAN]

InitInv ==
  \E two \in TwoPeers([PlainCfg EXCEPT !.bip37_enabled = TRUE], TRUE) :
    Load(two)

NextInv ==
  \/ \E p \in PeerIds, msg \in InvMsgs, F \in WFails : on_msg(p, msg, F)
  \/ \E p \in PeerIds, F \in WFails, intact \in BOOLEAN :
       on_tick_inv(p, F, intact)
  \/ \E p \in PeerIds : on_disconnect(p)

SpecInv == InitInv /\ [][NextInv]_vars

(***************************************************************************)
(* Misbehaviour: parse errors, oversized inv messages and rejected blocks  *)
(* of two peers.                                                           *)
(***************************************************************************)
BanMsgs ==
  {[type |-> "inv", items |-> <<[type |-> "block", hash |-> h]>>] :
     h \in SyncBlocks}
    \cup {[type |-> "inv",
           items |-> [i \in 1 .. (MaxInv + 1) |->
                        [type |-> "block", hash |-> 1]]]}
    \cup [type : {"block"}, hash : SyncBlocks, ok : {FALSE},
          score : {10, 50, 100}, synced : {FALSE}, ub : {NoUB}]

InitBan == \E two \in TwoPeers(PlainCfg, TRUE) : Load(two)

NextBan ==
  \/ \E p \in PeerIds : on_parse_error(p)
  \/ \E p \in PeerIds, msg \in BanMsgs, F \in WFails : on_msg(p, msg, F)
  \/ \E p \in PeerIds : on_disconnect(p)

SpecBan == InitBan /\ [][NextBan]_vars

(***************************************************************************)
(* Framing: an inbound peer whose remote end writes a stream of one or     *)
(* more frames, read from the socket in chunks of any size.                *)
(***************************************************************************)
\* command names: one byte, eleven bytes, the ends of the range of
\* printable characters, twelve bytes, a byte outside the range
CmdOne == <<120>>

CmdEleven == <<115, 101, 110, 100, 104, 101, 97, 100, 101, 114, 115>>

CmdRange == <<32, 126>>

CmdTwelve == CmdEleven \o <<50>>

CmdBad == <<120, 127>>

\* a body of n bytes
Body(n) == [i \in 1 .. n |-> i]

\* the frame a sender writes for command cmd and body
Frame(cmd, body) ==
  [cmd |-> cmd, body |-> body, bytes |-> btc_peer_send(Magic, cmd, body)]

\* the frame with one byte of the payload changed after the checksum was
\* computed
Flipped(f) ==
  [f EXCEPT !.bytes[Len(f.bytes)] = (@ + 1) % 256]

\* the frames of the streams: an empty body, a body of one byte, a body
\* of the largest size; a payload that does not match its checksum, a
\* wrong magic, a command of twelve bytes, a command with a byte out of
\* range, a body above the largest size
ParserFrames ==
  {Frame(CmdOne, <<>>), Frame(CmdEleven, <<7>>),
   Frame(CmdRange, Body(MaxMessage)), Flipped(Frame(CmdOne, <<7>>)),
   [Frame(CmdOne, <<>>) EXCEPT !.bytes[1] = 0], Frame(CmdTwelve, <<>>),
   Frame(CmdBad, <<>>), Frame(CmdOne, Body(MaxMessage + 1))}

InitParser ==
  \E k \in 1 .. MaxFrames : \E frames \in [1 .. k -> ParserFrames] :
    Load([btc_pool_on_socket(btc_pool_open(PlainCfg, TRUE, Addrs), 2, 2)
            EXCEPT !.input = [p |-> 0, frames |-> frames, fed |-> 0]])

NextParser ==
  \/ \E p \in PeerIds, n \in 1 .. (MaxFrames * (HeaderSize + MaxMessage + 1)) :
       on_data(p, n)
  \/ \E p \in PeerIds : on_tick_stall(p)

SpecParser == InitParser /\ [][NextParser]_vars

(***************************************************************************)
(* Self-connection: the only address of the address manager is the         *)
(* listener of the node itself.  loopback.out is the outbound peer of the  *)
(* connection and loopback.inn the inbound peer the listener creates for   *)
(* it; what one end writes is what the other end reads, in order.  Only    *)
(* version and verack are carried; there is one connection at a time.      *)
(***************************************************************************)
\* the end of the connection whose peer has been removed
Gone == 0 - 2

\* a message written by the node as the other end parses it
Receive(m) ==
  IF m.cmd = "version" THEN [GoodVersion EXCEPT !.nonce = m.arg[1]]
  ELSE [type |-> m.cmd]

\* the messages of the list written to peer p that the connection carries
RECURSIVE Carried(_, _)
Carried(msgs, p) ==
  IF msgs = <<>> THEN <<>>
  ELSE IF Head(msgs).to = p /\ Head(msgs).cmd \in {"version", "verack"}
       THEN <<Receive(Head(msgs))>> \o Carried(Tail(msgs), p)
       ELSE Carried(Tail(msgs), p)

\* the world with the messages written in the step put in flight
Route(w) ==
  [w EXCEPT !.loopback.to_inn = @ \o Carried(w.sent, w.loopback.out),
            !.loopback.to_out = @ \o Carried(w.sent, w.loopback.inn)]

\* on_tick, refill timer due: the node dials its own listener
self_dial(F) ==
  /\ ~aborted
  /\ loopback.out = NULL
  /\ \E w \in btc_pool_fill_outbound(World(F)) :
       LET new == w.pool.ids \ pool.ids
       IN Store(IF new = {} THEN w
                ELSE [w EXCEPT !.loopback.out = CHOOSE q \in new : TRUE])

\* on_socket: the listener accepts the connection; the inbound peer has
\* the address 2 (the local end of the outbound socket)
self_accept(n) ==
  /\ ~aborted
  /\ loopback.out \in PeerIds
  /\ loopback.inn = NULL
  /\ CanCreate(World({}))
  /\ n \notin pool.nonces
  /\ Store([btc_pool_on_socket(World({}), 2, n)
              EXCEPT !.loopback.inn = NewSlot(World({}))])

\* on_connect: the outbound socket is connected
self_connected(F) ==
  /\ loopback.out \in PeerIds
  /\ ~aborted
  /\ peer[loopback.out].sock = "connecting"
  /\ Store(Route(btc_peer_on_connect(
                   [World(F) EXCEPT !.peer[loopback.out].sock = "open"],
                   loopback.out)))

\* on_msg: the outbound peer reads the next message the inbound peer wrote
self_read_out(F) ==
  /\ ~aborted
  /\ loopback.out \in PeerIds
  /\ peer[loopback.out].sock = "open"
  /\ loopback.to_out # <<>>
  /\ Store(Route(btc_peer_on_msg(
                   [World(F) EXCEPT !.loopback.to_out = Tail(@)],
                   loopback.out, Head(loopback.to_out))))

\* on_msg: the inbound peer reads the next message the outbound peer wrote
self_read_inn(F) ==
  /\ ~aborted
  /\ loopback.inn \in PeerIds
  /\ peer[loopback.inn].sock = "open"
  /\ loopback.to_inn # <<>>
  /\ Store(Route(btc_peer_on_msg(
                   [World(F) EXCEPT !.loopback.to_inn = Tail(@)],
                   loopback.inn, Head(loopback.to_inn))))

\* the socket of the end e is closed, or the socket of the other end o is
\* closed or gone
Hangup(e, o) ==
  /\ e \in PeerIds
  /\ \/ peer[e].sock = "closed"
     \/ o = Gone
     \/ o \in PeerIds /\ peer[o].sock = "closed"

\* the connection after an end is gone: when both are, there is none
Unlink(l) == IF l.out = Gone /\ l.inn \in {Gone, NULL} THEN NoLoopback ELSE l

\* on_disconnect of the outbound peer; what was in flight to it is lost
self_disconnect_out ==
  /\ ~aborted
  /\ Hangup(loopback.out, loopback.inn)
  /\ Store([btc_pool_on_disconnect(World({}), loopback.out)
              EXCEPT !.loopback = Unlink([@ EXCEPT !.out = Gone,
                                                   !.to_out = <<>>])])

\* on_disconnect of the inbound peer
self_disconnect_inn ==
  /\ ~aborted
  /\ Hangup(loopback.inn, loopback.out)
  /\ Store([btc_pool_on_disconnect(World({}), loopback.inn)
              EXCEPT !.loopback = Unlink([@ EXCEPT !.inn = Gone,
                                                   !.to_inn = <<>>])])

InitSelf ==
  \E c \in Configs, synced \in BOOLEAN :
    /\ ~c.bip37_enabled /\ ~c.bip152_enabled /\ c.block_mode = 0
    /\ ~c.request_mempool
    /\ Load(btc_pool_open(c, synced, {1}))

NextSelf ==
  \/ \E F \in WFails : self_dial(F)
  \/ \E n \in NonceVals : self_accept(n)
  \/ \E F \in WFails : self_connected(F)
  \/ \E F \in WFails : self_read_out(F)
  \/ \E F \in WFails : self_read_inn(F)
  \/ \E p \in PeerIds : on_tick_stall(p)
  \/ self_disconnect_out
  \/ self_disconnect_inn

SpecSelf == InitSelf /\ [][NextSelf]_vars

(***************************************************************************)
(* Stalling: the loader and an inbound peer complete the handshake and     *)
(* then stay silent while the timer of the event loop runs.  The clock     *)
(* starts at StartTime and advances by Tick with every run of the timer;   *)
(* a peer that the node has closed is disconnected before the timer runs   *)
(* again, and the refill dials the address of the loader again.            *)
(***************************************************************************)
\* on_tick: the timer of the event loop, Tick milliseconds after its last
\* run: btc_peer_on_tick of every peer, then btc_pool_on_tick
on_tick(stale) ==
  /\ ~aborted
  /\ now + Tick <= (IF chain.synced THEN MaxTime ELSE ShortTime)
  /\ \E w \in btc_pool_on_tick(
                PeersOnTick([World({}) EXCEPT !.now = now + Tick], stale, 1)) :
       Store(w)

\* on_data with the bytes of one message: btc_peer_on_data notes the time
\* and the parser hands the message to btc_peer_on_msg
on_data_msg(p, msg) ==
  /\ ~aborted
  /\ peer[p].live
  /\ peer[p].sock = "open"
  /\ Store(btc_peer_on_msg([World({}) EXCEPT !.peer[p].last_recv = now],
                           p, msg))

\* the peers that have a request in one of their tables
Requesting ==
  {q \in pool.ids : peer[q].block_map \cup peer[q].tx_map
                      \cup peer[q].compact_map # {}}

InitStall ==
  \E c \in {PlainCfg, CheckpointCfg}, synced \in BOOLEAN :
    /\ c.checkpoints_enabled => ~synced
    /\ \E dialed \in
            WithLoader([btc_pool_open(c, synced, {1})
                          EXCEPT !.now = StartTime,
                                 !.pool.refill_timer = StartTime]) :
         Load([btc_pool_on_socket(dialed, 2, 2) EXCEPT !.sent = <<>>])

NextStall ==
  \/ \E stale \in SUBSET Requesting :
       (\A q \in pool.ids : peer[q].state # "DEAD") /\ on_tick(stale)
  \/ \E p \in PeerIds : on_connect(p, {})
  \/ \E p \in PeerIds, msg \in {GoodVersion, [type |-> "verack"]} :
       peer[p].state \in {"WAIT_VERSION", "WAIT_VERACK"} /\ on_data_msg(p, msg)
  \/ \E p \in PeerIds : peer[p].state = "DEAD" /\ on_disconnect(p)

SpecStall == InitStall /\ [][NextStall]_vars

(***************************************************************************)
(* Loader change.  Checkpoints are enabled and the chain is not synced.    *)
(* The refill has dialed two outbound peers: the loader, which has         *)
(* completed its handshake, and a second peer whose socket is connected.   *)
(* The peers send version, verack and headers; a peer can be closed by its *)
(* timer at any time, and the pool tick refills.                           *)
(***************************************************************************)
LoaderMsgs ==
  {GoodVersion, [type |-> "verack"]}
    \cup {m \in CheckpointMsgs : m.type = "headers"}

InitLoader ==
  \E dialed \in btc_pool_fill_outbound(
                  btc_pool_open(CheckpointCfg, FALSE, Addrs)) :
    /\ dialed.pool.list = <<0, 1>>
    /\ dialed.peer[0].addr = 1
    /\ Load([Deliver(dialed, <<[ev |-> "connect", p |-> 0]>> \o Shake(0)
                               \o <<[ev |-> "connect", p |-> 1]>>)
               EXCEPT !.sent = <<>>])

NextLoader ==
  \/ \E p \in PeerIds, msg \in LoaderMsgs : on_msg(p, msg, {})
  \/ \E p \in PeerIds : on_tick_stall(p)
  \/ \E p \in PeerIds : on_disconnect(p)
  \/ on_tick_refill({})
  \/ \E p \in PeerIds : on_connect(p, {})

SpecLoader == InitLoader /\ [][NextLoader]_vars

(***************************************************************************)
(* Refill.  The pool opens with max_outbound 1, below the number of peer   *)
(* slots, and with one address known; addr messages bring the others.  The *)
(* pool tick refills, connections are accepted, peers complete the         *)
(* handshake, send addr messages, are banned for an addr message that is   *)
(* too long, and are disconnected.                                         *)
(***************************************************************************)
AddrMsgs ==
  {[type |-> "addr", items |-> <<it>>] :
     it \in [addr : Addrs, ok : BOOLEAN, recent : BOOLEAN]}
    \cup {[type |-> "addr",
           items |-> [i \in 1 .. (MaxAddrList + 1) |->
                        [addr |-> 2, ok |-> TRUE, recent |-> TRUE]]]}

InitRefill ==
  Load([btc_pool_open(PlainCfg, TRUE, {1}) EXCEPT !.pool.max_outbound = 1])

NextRefill ==
  \/ on_tick_refill({})
  \/ \E a \in Addrs, n \in NonceVals : on_socket(a, n)
  \/ \E p \in PeerIds : on_connect(p, {})
  \/ \E p \in PeerIds, msg \in {GoodVersion, [type |-> "verack"]} :
       on_msg(p, msg, {})
  \/ \E p \in PeerIds, msg \in AddrMsgs : on_addr(p, msg)
  \/ \E p \in PeerIds : on_disconnect(p)

SpecRefill == InitRefill /\ [][NextRefill]_vars

(***************************************************************************)
(* Getblocks.  The loader and an inbound peer are CONNECTED.  The main     *)
(* chain runs from the genesis block to one of the tips 0, 1, 3, 7, 15     *)
(* (each block the first child of the one before); block 2, a second child *)
(* of the genesis block, may be known beside it.  The peers send getblocks *)
(* with locators on and off the main chain and with a stop hash or none.   *)
(***************************************************************************)
GetblocksTips == {0, 1, 3, 7, 15}

GetblocksMsgs ==
  [type : {"getblocks"},
   locator : {<<>>, <<0>>, <<1>>, <<3>>, <<2, 1>>, <<7, 3>>, <<9>>},
   stop : {NULL, 2, 3, 7, 15}]

InitGetblocks ==
  \E two \in TwoPeers(PlainCfg, TRUE), tip \in GetblocksTips,
     side \in {{}, {2}}, synced \in BOOLEAN :
    Load([two EXCEPT !.chain.tip = tip,
                     !.chain.height = Len(PathTo(tip)) - 1,
                     !.chain.known = SeqToSet(PathTo(tip)) \cup side,
                     !.chain.synced = synced])

NextGetblocks ==
  \/ \E p \in PeerIds, msg \in GetblocksMsgs :
       on_getblocks(p, msg, GetblocksChunk)
  \/ \E p \in PeerIds : on_disconnect(p)

SpecGetblocks == InitGetblocks /\ [][NextGetblocks]_vars

(***************************************************************************)
(* Notfound.  The loader and an inbound peer are CONNECTED.  Both announce *)
(* blocks 1 and 3 and transaction 101, which the pool requests from the    *)
(* first peer to announce each, and both send notfound messages of one to  *)
(* three items: requested and unrequested hashes, a witness block type and *)
(* a type the pool does not know.                                          *)
(***************************************************************************)
NotfoundItems ==
  SyncItems \cup {[type |-> "witness_block", hash |-> 1],
                  [type |-> "unknown", hash |-> 1]}

NotfoundLists ==
  {<<a>> : a \in NotfoundItems}
    \cup {<<a, b>> : a \in NotfoundItems, b \in NotfoundItems}
    \cup {<<[type |-> "block", hash |-> 1], a, [type |-> "block", hash |-> 3]>> :
            a \in NotfoundItems}

NotfoundMsgs ==
  {[type |-> "inv", items |-> <<it>>] : it \in SyncItems}
    \cup {[type |-> "notfound", items |-> l] : l \in NotfoundLists}

InitNotfound == \E two \in TwoPeers(PlainCfg, TRUE) : Load(two)

NextNotfound ==
  \/ \E p \in PeerIds, msg \in NotfoundMsgs : on_msg(p, msg, {})
  \/ \E p \in PeerIds : on_disconnect(p)

SpecNotfound == InitNotfound /\ [][NextNotfound]_vars

(***************************************************************************)
(* Oversized messages.  The loader is CONNECTED and an inbound peer is     *)
(* CONNECTED or has sent its version only; checkpoints are enabled or not. *)
(* The peers send addr, inv, getdata and headers messages within the       *)
(* limit and one item over it.  The items of the long messages are ones    *)
(* the pool would act on: unknown addresses, blocks and a transaction it   *)
(* does not have, the genesis block, headers that extend the chain.        *)
(***************************************************************************)
LongInv ==
  [i \in 1 .. (MaxInv + 1) |->
     IF i = 1 THEN [type |-> "tx", hash |-> 101]
     ELSE [type |-> "block", hash |-> i - 1]]

LongGetdata == [i \in 1 .. (MaxInv + 1) |-> [type |-> "block", hash |-> 0]]

LongHeaders == [i \in 1 .. (MaxHeaders + 1) |-> Hdr(2 ^ (i - 1) - 1, 0)]

LongAddr ==
  [i \in 1 .. (MaxAddrList + 1) |->
     [addr |-> MaxAddrs + i, ok |-> TRUE, recent |-> TRUE]]

OversizeMsgs ==
  {[type |-> "inv", items |-> l] :
     l \in {<<[type |-> "block", hash |-> 1]>>,
            <<[type |-> "tx", hash |-> 101]>>, LongInv}}
    \cup {[type |-> "getdata", items |-> l, intact |-> TRUE] :
            l \in {<<[type |-> "block", hash |-> 0]>>, LongGetdata}}
    \cup {[type |-> "headers", headers |-> l, ub |-> NoUB] :
            l \in {<<>>, <<Hdr(0, 0)>>, LongHeaders}}

OversizeAddrs ==
  {[type |-> "addr", items |-> l] :
     l \in {<<[addr |-> MaxAddrs + 1, ok |-> TRUE, recent |-> FALSE]>>,
            LongAddr}}

\* the handshakes of the scenario: complete, or short of the verack of
\* the inbound peer
OversizeShakes ==
  {Handshakes(PlainCfg), SubSeq(Handshakes(PlainCfg), 1, 5)}

InitOversize ==
  \E c \in {PlainCfg, CheckpointCfg}, synced \in BOOLEAN,
     events \in OversizeShakes :
    /\ c.checkpoints_enabled => ~synced
    /\ \E dialed \in WithLoader(btc_pool_open(c, synced, Addrs)) :
         Load([Deliver(dialed, events) EXCEPT !.sent = <<>>])

NextOversize ==
  \/ \E p \in PeerIds, msg \in OversizeMsgs :
       /\ msg.type = "getdata" => Len(peer[p].sending) < MaxQueued
       /\ on_msg(p, msg, {})
  \/ \E p \in PeerIds, msg \in OversizeAddrs : on_addr(p, msg)
  \/ \E p \in PeerIds : on_disconnect(p)

SpecOversize == InitOversize /\ [][NextOversize]_vars

(***************************************************************************)
(* Compact blocks alone: the download scenario with compact blocks in      *)
(* high-bandwidth mode on a synced chain.  The loader announces four       *)
(* blocks, more than a peer may have waiting for transactions.             *)
(***************************************************************************)
InitCompact == \E two \in TwoPeers(CompactCfg, TRUE) : Load(two)

NextCompact ==
  \/ \E p \in PeerIds, F \in WFails :
       \E msg \in CompactMsgs(p) : on_msg(p, msg, F)
  \/ \E p \in PeerIds : on_tick_stall(p)
  \/ \E p \in PeerIds : on_disconnect(p)

SpecCompact == InitCompact /\ [][NextCompact]_vars

(***************************************************************************)
(* Ping.  The loader and an inbound peer have completed the handshake at   *)
(* StartTime.  The timer of the event loop runs every Tick milliseconds,   *)
(* which is the period of the ping timer of a peer; the nonce btc_nonce    *)
(* draws during a run is any 64-bit value, zero included (rand.c:308-320   *)
(* returns the two words drawn).  The peers send pong and ping messages    *)
(* with any nonce.                                                         *)
(***************************************************************************)
PingNonces == 0 .. MaxNonce

PingMsgs == [type : {"ping", "pong"}, nonce : PingNonces]

\* on_tick with the draw n of btc_nonce
on_tick_nonce(n) ==
  /\ ~aborted
  /\ now + Tick <= StartTime + MaxPings * Tick
  /\ \E w \in btc_pool_on_tick(
                PeersOnTick([World({}) EXCEPT !.now = now + Tick, !.rnd = n],
                            {}, 1)) :
       Store(w)

\* the events of Handshakes with the time of the read noted
Timed(events) ==
  [i \in 1 .. Len(events) |->
     IF events[i].ev = "msg" THEN [events[i] EXCEPT !.ev = "data"]
     ELSE events[i]]

InitPing ==
  \E dialed \in WithLoader([btc_pool_open(PlainCfg, TRUE, Addrs)
                              EXCEPT !.now = StartTime,
                                     !.pool.refill_timer = StartTime]) :
    Load([Deliver(dialed, Timed(Handshakes(PlainCfg))) EXCEPT !.sent = <<>>])

NextPing ==
  \/ \E n \in PingNonces : on_tick_nonce(n)
  \/ \E p \in PeerIds, msg \in PingMsgs : on_data_msg(p, msg)
  \/ \E p \in PeerIds : on_disconnect(p)

SpecPing == InitPing /\ [][NextPing]_vars

(***************************************************************************)
(* Handshake limit.  The pool has dialed the loader and accepted an        *)
(* inbound connection at StartTime.  The timer of the event loop runs      *)
(* every ShortTick milliseconds; between two runs the socket of a dialed   *)
(* peer connects, peers send version and verack or stay silent, closed     *)
(* peers are disconnected and new connections are accepted.                *)
(***************************************************************************)
\* on_tick, ShortTick milliseconds after its last run
on_tick_short ==
  /\ ~aborted
  /\ now + ShortTick <= StartTime + MaxShortTicks * ShortTick
  /\ \E w \in btc_pool_on_tick(
                PeersOnTick([World({}) EXCEPT !.now = now + ShortTick],
                            {}, 1)) :
       Store(w)

InitConnect ==
  \E dialed \in WithLoader([btc_pool_open(PlainCfg, TRUE, {1})
                              EXCEPT !.now = StartTime,
                                     !.pool.refill_timer = StartTime]) :
    Load([btc_pool_on_socket(dialed, 2, 2) EXCEPT !.sent = <<>>])

NextConnect ==
  \/ on_tick_short
  \/ \E n \in NonceVals : on_socket(2, n)
  \/ \E p \in PeerIds : on_connect(p, {})
  \/ \E p \in PeerIds, msg \in {GoodVersion, [type |-> "verack"]} :
       peer[p].state \in {"WAIT_VERSION", "WAIT_VERACK"} /\ on_data_msg(p, msg)
  \/ \E p \in PeerIds : peer[p].state = "DEAD" /\ on_disconnect(p)

SpecConnect == InitConnect /\ [][NextConnect]_vars

(***************************************************************************)
(* Silence.  The profile of the network admits peers of PONG_VERSION, the  *)
(* last version without pong.  The loader and an inbound peer, each of     *)
(* PONG_VERSION or of a version with pong, have completed the handshake    *)
(* at StartTime and the chain is synced.  The timer of the event loop runs *)
(* every LongTick milliseconds, so the ping timer and the stall timer of   *)
(* every peer are due at every run.  A peer sends nothing, or a ping with  *)
(* nonce 0 (which is read and not answered), or a pong.                    *)
(***************************************************************************)
LegacyCfg == [PlainCfg EXCEPT !.min_version = BTC_NET_PONG_VERSION]

\* version and verack of a peer of version v
ShakeAs(p, v) ==
  <<[ev |-> "data", p |-> p, msg |-> [GoodVersion EXCEPT !.version = v]],
    [ev |-> "data", p |-> p, msg |-> [type |-> "verack"]]>>

SilenceVersions == {BTC_NET_PONG_VERSION, BTC_NET_COMPACT_WITNESS_VERSION}

SilenceMsgs ==
  {[type |-> "ping", nonce |-> 0], [type |-> "pong", nonce |-> 1]}

\* on_tick, LongTick milliseconds after its last run
on_tick_long ==
  /\ ~aborted
  /\ now + LongTick <= StartTime + MaxLongTicks * LongTick
  /\ \E w \in btc_pool_on_tick(
                PeersOnTick([World({}) EXCEPT !.now = now + LongTick],
                            {}, 1)) :
       Store(w)

InitSilence ==
  \E v0, v1 \in SilenceVersions :
    \E dialed \in WithLoader([btc_pool_open(LegacyCfg, TRUE, {1})
                                EXCEPT !.now = StartTime,
                                       !.pool.refill_timer = StartTime]) :
      Load([Deliver(dialed,
                    <<[ev |-> "connect", p |-> 0]>> \o ShakeAs(0, v0)
                      \o <<[ev |-> "socket", addr |-> 2, nonce |-> 2]>>
                      \o ShakeAs(1, v1))
              EXCEPT !.sent = <<>>])

NextSilence ==
  \/ (\A q \in pool.ids : peer[q].state # "DEAD") /\ on_tick_long
  \/ \E p \in PeerIds, msg \in SilenceMsgs :
       peer[p].state = "CONNECTED" /\ on_data_msg(p, msg)
  \/ \E p \in PeerIds : peer[p].state = "DEAD" /\ on_disconnect(p)

SpecSilence == InitSilence /\ [][NextSilence]_vars

(***************************************************************************)
(* Serving.  The node has dialed the loader and accepted an inbound        *)
(* connection at StartTime; the chain is synced and holds the genesis      *)
(* block.  The peers complete the handshake or not, and send getdata for   *)
(* the genesis block and for a block the node does not have (the inbound   *)
(* peer does), before and after the handshake.  The socket of a peer takes *)
(* what is written to it at once or holds it in its buffer; later it takes *)
(* a block from the buffer, and when the buffer is empty the drain event   *)
(* is raised.  The timer of the event loop runs every ShortTick            *)
(* milliseconds.                                                           *)
(***************************************************************************)
ServeItems == {[type |-> "block", hash |-> 0], [type |-> "block", hash |-> 5]}

ServeLists ==
  {<<i>> : i \in ServeItems} \cup {<<i, j>> : i, j \in ServeItems}

ServeMsgs == {[type |-> "getdata", items |-> l, intact |-> TRUE] :
                l \in ServeLists}

\* the sets of peers whose socket holds the bytes written in a step
Helds == {{}, PeerIds}

\* on_data with a getdata message
on_getdata(p, msg, H) ==
  /\ ~aborted
  /\ peer[p].live
  /\ peer[p].sock = "open"
  /\ Len(peer[p].sending) + Len(msg.items) <= MaxServeQueue
  /\ Store(btc_peer_on_msg([World({}) EXCEPT !.peer[p].last_recv = now,
                                             !.held = H],
                           p, msg))

\* the connection takes a block from the buffer of the socket of p, and
\* the buffer is not empty after it
socket_takes(p) ==
  /\ ~aborted
  /\ peer[p].live
  /\ peer[p].sock = "open"
  /\ peer[p].buffered > DataSize
  /\ Store([World({}) EXCEPT !.peer[p].buffered = @ - DataSize])

\* on_drain: the connection has taken all that the socket of p held
on_drain(p, H) ==
  /\ ~aborted
  /\ peer[p].live
  /\ peer[p].sock = "open"
  /\ peer[p].buffered > 0
  /\ Store(btc_peer_on_drain([World({}) EXCEPT !.peer[p].buffered = 0,
                                               !.held = H], p))

\* on_tick, ShortTick milliseconds after its last run
on_tick_serve(H) ==
  /\ ~aborted
  /\ now + ShortTick <= StartTime + MaxServeTicks * ShortTick
  /\ \E w \in btc_pool_on_tick(
                PeersOnTick([World({}) EXCEPT !.now = now + ShortTick,
                                              !.held = H], {}, 1)) :
       Store(w)

InitServe == InitConnect

NextServe ==
  \/ \E H \in Helds : on_tick_serve(H)
  \/ \E p \in PeerIds : on_connect(p, {})
  \/ \E p \in PeerIds, msg \in {GoodVersion, [type |-> "verack"]} :
       peer[p].state \in {"WAIT_VERSION", "WAIT_VERACK"} /\ on_data_msg(p, msg)
  \/ \E p \in PeerIds, msg \in ServeMsgs, H \in Helds :
       ~peer[p].outbound /\ on_getdata(p, msg, H)
  \/ \E p \in PeerIds : socket_takes(p)
  \/ \E p \in PeerIds, H \in Helds : on_drain(p, H)
  \/ \E p \in PeerIds : peer[p].state = "DEAD" /\ on_disconnect(p)

SpecServe == InitServe /\ [][NextServe]_vars

(***************************************************************************)
(* Checkpoints.  Headers-first download with the loader and an inbound     *)
(* peer, both CONNECTED, from the genesis block on: the peers send the     *)
(* headers and the blocks of the download scenario and inv messages that   *)
(* announce blocks the node has, has asked for, or does not know.          *)
(***************************************************************************)
BlockInvs ==
  {[type |-> "inv", items |-> [i \in 1 .. Len(l) |->
                                 [type |-> "block", hash |-> l[i]]]] :
     l \in {<<1>>, <<7>>, <<15>>, <<3, 7>>}}

InitCheckpoint == \E two \in TwoPeers(CheckpointCfg, FALSE) : Load(two)

NextCheckpoint ==
  \/ \E p \in PeerIds, msg \in CheckpointMsgs \cup BlockInvs :
       on_msg(p, msg, {})
  \/ \E p \in PeerIds : on_disconnect(p)

SpecCheckpoint == InitCheckpoint /\ [][NextCheckpoint]_vars

(***************************************************************************)
(* Requests before the handshake.  The node has a synced chain of one      *)
(* block above the genesis block, answers the mempool request (bip37), and *)
(* has dialed the loader and accepted an inbound connection.  The peers    *)
(* complete the handshake or not; before and after it they send requests:  *)
(* ping, getaddr, getblocks, getheaders, mempool, getblocktxn and getdata. *)
(* A peer that is CONNECTED announces and sends a transaction.             *)
(***************************************************************************)
EarlyRequests ==
  {[type |-> "ping", nonce |-> 1], [type |-> "getaddr"], [type |-> "mempool"],
   [type |-> "getblocks", locator |-> <<0>>, stop |-> NULL],
   [type |-> "getheaders", locator |-> <<0>>, stop |-> NULL],
   [type |-> "getblocktxn", hash |-> 1, stored |-> TRUE],
   [type |-> "getdata", items |-> <<[type |-> "block", hash |-> 1]>>,
    intact |-> TRUE]}

EarlyTxs ==
  {[type |-> "inv", items |-> <<[type |-> "tx", hash |-> 101]>>],
   [type |-> "tx", hash |-> 101, ok |-> TRUE, score |-> 100,
    missing |-> <<>>]}

InitEarly ==
  \E dialed \in
       WithLoader([btc_pool_open([PlainCfg EXCEPT !.bip37_enabled = TRUE],
                                 TRUE, {1})
                     EXCEPT !.chain.tip = 1, !.chain.height = 1,
                            !.chain.known = {0, 1}]) :
    Load([btc_pool_on_socket(dialed, 2, 2) EXCEPT !.sent = <<>>])

NextEarly ==
  \/ \E p \in PeerIds : on_connect(p, {})
  \/ \E p \in PeerIds, msg \in {GoodVersion, [type |-> "verack"]} :
       peer[p].state \in {"WAIT_VERSION", "WAIT_VERACK"} /\ on_data_msg(p, msg)
  \/ \E p \in PeerIds, msg \in EarlyRequests :
       /\ msg.type = "getdata" => Len(peer[p].sending) < MaxQueued
       /\ on_msg(p, msg, {})
  \/ \E p \in PeerIds, msg \in EarlyTxs :
       peer[p].state = "CONNECTED" /\ on_msg(p, msg, {})
  \/ \E p \in PeerIds : on_disconnect(p)

SpecEarly == InitEarly /\ [][NextEarly]_vars

\* rng_init with the entropy e that btc_sysrand returns
rng_init(m, e) == [RngZero EXCEPT !.seed = e]

\* rng_global_init in process q, whose id is pid
rng_global_init(m, q, pid, e) ==
  IF ~m.started \/ m.pid # pid
  THEN [rng_init(m, e) EXCEPT !.started = TRUE, !.pid = pid, !.by = q]
  ELSE m

\* rng_generate: the keystream is read and the key is replaced
rng_generate(m) ==
  [m |-> [m EXCEPT !.gen = @ + 1], x |-> <<m.seed, m.gen, 0>>]

\* rng_random: the pool is filled from the keystream when it is used up
\* (and the key replaced), and the next word is taken from it
rng_random(m) ==
  LET m1 == IF m.pos = 0 THEN [m EXCEPT !.gen = @ + 1, !.pos = PoolWords]
            ELSE m
      m2 == [m1 EXCEPT !.pos = @ - 1]
  IN [m |-> m2, x |-> <<m2.seed, m2.gen, m2.pos + 1>>]

\* rng_uniform; more tells whether the first word read is rejected
rng_uniform(m, max, more) ==
  IF max <= 1 THEN [m |-> m, x |-> <<>>]
  ELSE LET r == rng_random(m)
       IN IF more THEN rng_random(r.m) ELSE r

\* the two words of btc_nonce
rng_nonce(m) ==
  LET hi == rng_random(m)
      lo == rng_random(hi.m)
  IN [m |-> lo.m, x |-> hi.x \o lo.x]

\* the result of the call api on the state m
Generate(m, api, max, more) ==
  CASE api = "btc_getrandom" -> rng_generate(m)
    [] api = "btc_random" -> rng_random(m)
    [] api = "btc_uniform" -> rng_uniform(m, max, more)
    [] api = "btc_nonce" -> rng_nonce(m)

Apis == {"btc_getrandom", "btc_random", "btc_uniform", "btc_nonce"}

\* the pool variables stay as they are
PoolIdle == StorePool(World({}))

\* process q calls api: rng_global_init, then the generator.  btc_sysrand
\* is called only when the state is seeded; when it fails the process
\* aborts.
rng_call(q, api, max, more, ok) ==
  /\ q \in rng.live
  /\ rng.mem[q].gen < MaxGen
  /\ LET m == rng.mem[q]
         stale == ~m.started \/ m.pid # rng.pid[q]
         e == rng.entropy + 1
         m1 == rng_global_init(m, q, rng.pid[q], e)
         r == Generate(m1, api, max, more)
     IN /\ stale \/ ok
        /\ stale => rng.entropy < MaxSeeds
        /\ IF stale /\ ~ok
           THEN rng' = [rng EXCEPT !.live = @ \ {q}, !.out = NoCall,
                                   !.mem[q] = RngZero]
           ELSE rng' = [rng EXCEPT
                          !.mem[q] = r.m,
                          !.entropy = IF stale THEN e ELSE @,
                          !.seedings[q] = IF stale THEN @ + 1 ELSE @,
                          !.out = [api |-> api, proc |-> q, by |-> r.m.by,
                                   stale |-> stale,
                                   seeded |-> r.m.seed # m.seed, x |-> r.x]]
  /\ PoolIdle

\* process q forks: the child is the next process, with the memory of q
\* and an id that no live process holds
rng_fork(q, id) ==
  /\ q \in rng.live
  /\ rng.made < MaxProcs
  /\ id \notin {rng.pid[l] : l \in rng.live}
  /\ rng' = [rng EXCEPT !.made = @ + 1,
                        !.live = @ \cup {rng.made + 1},
                        !.mem[rng.made + 1] = rng.mem[q],
                        !.pid[rng.made + 1] = id,
                        !.out = NoCall]
  /\ PoolIdle

\* process q exits
rng_exit(q) ==
  /\ q \in rng.live
  /\ rng' = [rng EXCEPT !.live = @ \ {q}, !.out = NoCall]
  /\ PoolIdle

InitRng == Load(btc_pool_open(PlainCfg, TRUE, {}))

NextRng ==
  \/ \E q \in Procs, api \in Apis, max \in {1, 2}, more, ok \in BOOLEAN :
       rng_call(q, api, max, more, ok)
  \/ \E q \in Procs, id \in Pids : rng_fork(q, id)
  \/ \E q \in Procs : rng_exit(q)

SpecRng == InitRng /\ [][NextRng]_vars

(***************************************************************************)
(* C3.  At most one registered peer carries the loader flag, and it is the *)
(* peer of the loader slot.                                                *)
(***************************************************************************)
Loaders == {q \in pool.ids : peer[q].loader}

C3_LoaderUnique ==
  /\ Cardinality(Loaders) <= 1
  /\ \A q \in Loaders : pool.load = q

\* two registered outbound peers, both done with the handshake at some
\* point, one of them the loader
C3_Witness ==
  \E q \in pool.ids, r \in pool.ids :
    /\ q # r
    /\ peer[q].loader /\ pool.load = q
    /\ peer[r].outbound /\ peer[r].state = "CONNECTED" /\ ~peer[r].loader

(***************************************************************************)
(* C10.  A peer becomes CONNECTED only in a step that receives verack in   *)
(* WAIT_VERACK, becomes WAIT_VERACK only in a step that receives a valid   *)
(* version in WAIT_VERSION, and a version or a verack received in any      *)
(* other state leaves the peer DEAD with its socket closed.                *)
(***************************************************************************)
ValidVersion(p, m) ==
  /\ m.version >= BTC_NET_MIN_VERSION
  /\ (~cfg.self_connect => m.nonce \notin pool.nonces)
  /\ (peer[p].outbound => {"NETWORK", "WITNESS"} \subseteq m.services)

\* the state of p after the pool reads message m from it
StateAfter(p, m, F) == btc_peer_on_msg(World(F), p, m).peer[p]

C10_HandshakeOrder ==
  /\ [][\A p \in PeerIds :
          /\ (peer'[p].state = "CONNECTED" /\ peer[p].state # "CONNECTED")
               => /\ peer[p].state = "WAIT_VERACK"
                  /\ \E F \in WFails : on_msg(p, [type |-> "verack"], F)
          /\ (peer'[p].state = "WAIT_VERACK" /\ peer[p].state # "WAIT_VERACK")
               => /\ peer[p].state = "WAIT_VERSION"
                  /\ \E m \in VersionMsgs, F \in WFails :
                       ValidVersion(p, m) /\ on_msg(p, m, F)
     ]_vars
  /\ [](\A p \in PeerIds, F \in WFails :
          (~aborted /\ peer[p].live /\ peer[p].sock = "open") =>
            /\ peer[p].state # "WAIT_VERSION" =>
                 \A m \in VersionMsgs :
                   /\ StateAfter(p, m, F).state = "DEAD"
                   /\ StateAfter(p, m, F).sock = "closed"
            /\ peer[p].state # "WAIT_VERACK" =>
                 /\ StateAfter(p, [type |-> "verack"], F).state = "DEAD"
                 /\ StateAfter(p, [type |-> "verack"], F).sock = "closed")

\* a peer that completed the handshake next to a peer closed for a version
\* or verack it sent after its version was accepted
C10_Witness ==
  \E q \in pool.ids, r \in pool.ids :
    /\ peer[q].state = "CONNECTED"
    /\ peer[r].state = "DEAD" /\ peer[r].closed /\ peer[r].version # NULL
    /\ peer[r].version >= BTC_NET_MIN_VERSION
    /\ peer[r].nonce \notin pool.nonces

(***************************************************************************)
(* C1.  A hash is in the block request table of the pool exactly when it   *)
(* is a key of the block request table of exactly one registered peer,     *)
(* and the same holds of the transaction request tables.                   *)
(***************************************************************************)
BlockHolders(h) == {q \in pool.ids : h \in peer[q].block_map}

TxHolders(h) == {q \in pool.ids : h \in peer[q].tx_map}

C1_RequestMaps ==
  /\ \A h \in pool.block_map : Cardinality(BlockHolders(h)) = 1
  /\ \A q \in pool.ids : peer[q].block_map \subseteq pool.block_map
  /\ \A h \in pool.tx_map : Cardinality(TxHolders(h)) = 1
  /\ \A q \in pool.ids : peer[q].tx_map \subseteq pool.tx_map

\* two registered peers with a block request each, one of them with a
\* transaction request
C1_Witness ==
  \E q \in pool.ids, r \in pool.ids :
    /\ q # r
    /\ peer[q].block_map # {} /\ peer[r].block_map # {}
    /\ peer[q].tx_map # {}

(***************************************************************************)
(* C8.  When the disconnect callback of a peer returns, the peer is in     *)
(* none of the structures of the peer list, its nonce is not in the nonce  *)
(* set, and no hash it had requested is left in the request tables of the  *)
(* pool.                                                                   *)
(***************************************************************************)
C8_Disconnect ==
  [][\A p \in PeerIds :
       (peer[p].live /\ ~peer'[p].live /\ on_disconnect(p) /\ ~aborted') =>
          /\ p \notin pool'.ids
          /\ \A e \in pool'.map : e[2] # p
          /\ p \notin SeqToSet(pool'.list)
          /\ pool'.load # p
          /\ ~peer'[p].live
          /\ peer[p].nonce \notin pool'.nonces
          /\ peer[p].block_map \cap pool'.block_map = {}
          /\ peer[p].tx_map \cap pool'.tx_map = {}
          /\ peer[p].compact_map \cap pool'.compact_map = {}
    ]_vars

\* the inbound peer is gone, and the pool has asked the loader again for
\* the blocks that were in flight
C8_Witness ==
  /\ pool.ids = {0}
  /\ ~peer[1].live
  /\ pool.block_map = {} /\ pool.tx_map = {}
  /\ \E i \in 1 .. Len(sent) : sent[i].cmd = "getblocks" /\ sent[i].to = 0

(***************************************************************************)
(* C2.  A hash is in the compact block set of the pool exactly when it is  *)
(* a key of the compact block table of exactly one registered peer, and a  *)
(* cmpctblock for a hash that is already in the table of the sender or in  *)
(* the set of the pool changes neither of them.                            *)
(***************************************************************************)
CompactHolders(h) == {q \in pool.ids : h \in peer[q].compact_map}

\* the compact block tables after the pool reads message m from p
CompactAfter(p, m, F) ==
  LET w == btc_peer_on_msg(World(F), p, m)
  IN <<w.pool.compact_map, [q \in PeerIds |-> w.peer[q].compact_map]>>

C2_CompactMaps ==
  /\ \A h \in pool.compact_map : Cardinality(CompactHolders(h)) = 1
  /\ \A q \in pool.ids : peer[q].compact_map \subseteq pool.compact_map
  /\ \A p \in pool.ids, F \in WFails, m \in CompactMsgs(0) :
       (/\ ~aborted /\ peer[p].sock = "open" /\ m.type = "cmpctblock"
        /\ (m.hash \in peer[p].compact_map \/ m.hash \in pool.compact_map))
         => CompactAfter(p, m, F) =
              <<pool.compact_map, [q \in PeerIds |-> peer[q].compact_map]>>

\* both peers wait for the transactions of a compact block, so that a
\* cmpctblock of either hash is a duplicate for both
C2_Witness ==
  \E q \in pool.ids, r \in pool.ids :
    /\ q # r
    /\ peer[q].compact_map # {} /\ peer[r].compact_map # {}
    /\ peer[q].state = "CONNECTED" /\ peer[r].state = "CONNECTED"

(***************************************************************************)
(* C4.  Every peer in state CONNECTED has at most MaxBlockRequest entries  *)
(* in its block request table.                                             *)
(***************************************************************************)
C4_BlockQuota ==
  \A q \in pool.ids :
    peer[q].state = "CONNECTED" =>
      Cardinality(peer[q].block_map) <= MaxBlockRequest

(***************************************************************************)
(* C6.  In the headers chain every node is one higher than the node before *)
(* it and its header names the hash of the node before it as its parent.   *)
(***************************************************************************)
C6_HeaderChain ==
  \A i \in 1 .. (Len(pool.hdr) - 1) :
    /\ pool.hdr[i + 1].height = pool.hdr[i].height + 1
    /\ PrevOf(pool.hdr[i + 1].hash) = pool.hdr[i].hash

\* the chain holds two headers received after the tip of the chain
C6_Witness ==
  /\ Len(pool.hdr) >= 2
  /\ pool.hdr[1].height > chain.height

(***************************************************************************)
(* C7.  As stated: in checkpoint mode the height of the checkpoint         *)
(* header_tip is strictly greater than the height of header_head.          *)
(***************************************************************************)
C7_TipAboveHead ==
  pool.checkpoints =>
    /\ pool.hdr # <<>>
    /\ Checkpoints[pool.header_tip].height > Head(pool.hdr).height

(***************************************************************************)
(* C7, amended.  In checkpoint mode the headers chain is not empty and     *)
(* the height of the checkpoint header_tip is at least the height of       *)
(* header_head; they are equal only when header_head is that checkpoint.   *)
(***************************************************************************)
C7_TipNotBelowHead ==
  pool.checkpoints =>
    /\ pool.hdr # <<>>
    /\ Checkpoints[pool.header_tip].height >= Head(pool.hdr).height
    /\ Checkpoints[pool.header_tip].height = Head(pool.hdr).height
         => Checkpoints[pool.header_tip].hash = Head(pool.hdr).hash

\* header_head is the second checkpoint, whose block has not arrived
C7_Witness ==
  /\ pool.checkpoints
  /\ pool.header_tip = 2
  /\ pool.hdr # <<>>
  /\ Head(pool.hdr).height = Checkpoints[2].height

(***************************************************************************)
(* C5.  As stated: every inv sent (the flush of the announcement queue,    *)
(* the answers to getblocks and mempool, the tip inv after hash_continue)  *)
(* holds only hashes that were not in the inv_filter of the recipient      *)
(* before the step that sends it.                                          *)
(***************************************************************************)
InvCmds == {"inv", "inv_full"}

C5_InvNotKnown ==
  [][\A i \in 1 .. Len(sent') :
       sent'[i].cmd \in InvCmds =>
         \A j \in 1 .. Len(sent'[i].arg) :
           sent'[i].arg[j] \notin peer[sent'[i].to].inv_filter
    ]_vars

(***************************************************************************)
(* C5, amended.  A hash joins the announcement queue of a peer only if it  *)
(* was not in the inv_filter of the peer before the step, so the flush of  *)
(* the queue sends only hashes that were queued earlier or were not in the *)
(* filter before the step; an inv that answers getblocks or mempool or     *)
(* follows hash_continue is sent without a test of the filter, and each of *)
(* its hashes is in the inv_filter of the recipient after the step.        *)
(***************************************************************************)
QueuedBefore(q, type, hash) ==
  [type |-> type, hash |-> hash] \in SeqToSet(peer[q].inv_queue)

C5_InvFilter ==
  [][/\ \A i \in 1 .. Len(sent') :
          \A j \in 1 .. Len(sent'[i].arg) :
            /\ sent'[i].cmd = "inv" =>
                 sent'[i].arg[j] \in peer'[sent'[i].to].inv_filter
            /\ sent'[i].cmd = "inv_full" =>
                 \/ QueuedBefore(sent'[i].to, sent'[i].types[j],
                                 sent'[i].arg[j])
                 \/ sent'[i].arg[j] \notin peer[sent'[i].to].inv_filter
     /\ \A q \in PeerIds :
          \A k \in 1 .. Len(peer'[q].inv_queue) :
            \/ QueuedBefore(q, peer'[q].inv_queue[k].type,
                            peer'[q].inv_queue[k].hash)
            \/ peer'[q].inv_queue[k].hash \notin peer[q].inv_filter
    ]_vars

\* the queue of a peer that has been sent an answer to getblocks is
\* flushed with a transaction in it
C5_Witness ==
  \E i \in 1 .. Len(sent) :
    /\ sent[i].cmd = "inv_full"
    /\ "tx" \in SeqToSet(sent[i].types)
    /\ peer[sent[i].to].hash_continue # NULL

(***************************************************************************)
(* C9.  A registered peer whose ban score has reached the threshold is     *)
(* DEAD with its socket closed and its address is banned: the step that    *)
(* takes the score to the threshold closes the peer and bans the address.  *)
(***************************************************************************)
C9_Banned ==
  \A q \in pool.ids :
    peer[q].ban_score >= BanThreshold =>
      /\ peer[q].state = "DEAD"
      /\ peer[q].sock = "closed"
      /\ peer[q].addr \in addrman.banned
      /\ peer[q].addr \notin addrman.addrs

\* a peer whose score has reached the threshold exactly, in steps of ten
\* or fifty, next to a peer with a lower score that is still connected
C9_Witness ==
  \E q \in pool.ids, r \in pool.ids :
    /\ peer[q].ban_score = BanThreshold
    /\ peer[q].state = "DEAD"
    /\ peer[r].ban_score > 0 /\ peer[r].ban_score < BanThreshold
    /\ peer[r].state = "CONNECTED"

(***************************************************************************)
(* C11.  On a network whose self_connect flag is false, the inbound peer   *)
(* of a connection of the node to its own listener finds the nonce of the  *)
(* version it reads in the nonce list and closes, and neither peer of the  *)
(* connection is ever CONNECTED.                                           *)
(***************************************************************************)
\* a step in which the inbound peer reads the version of the outbound peer
ReadsVersion ==
  /\ loopback.to_inn # <<>>
  /\ Head(loopback.to_inn).type = "version"
  /\ \E F \in WFails : self_read_inn(F)

\* no peer of the connection is CONNECTED
NoneConnected ==
  \A p \in {loopback.out, loopback.inn} \cap PeerIds :
    peer[p].state # "CONNECTED"

C11_SelfConnect ==
  /\ [][(~cfg.self_connect /\ ReadsVersion)
          => /\ Head(loopback.to_inn).nonce \in pool.nonces
             /\ peer'[loopback.inn].state = "DEAD"]_vars
  /\ [](~cfg.self_connect => NoneConnected)

(***************************************************************************)
(* C11, amended.  While the outbound peer is registered its nonce is in    *)
(* the nonce list: the inbound peer that reads the version closes and      *)
(* writes nothing.  Once the outbound peer has been removed (it was        *)
(* closed by its timer before the inbound peer read the version) the nonce *)
(* is gone: the inbound peer answers and waits for a verack that never     *)
(* comes.  In both cases neither peer of the connection is ever CONNECTED. *)
(***************************************************************************)
C11_SelfConnectRegistered ==
  /\ [][(~cfg.self_connect /\ ReadsVersion)
          => IF loopback.out \in PeerIds
             THEN /\ Head(loopback.to_inn).nonce \in pool.nonces
                  /\ peer'[loopback.inn].state = "DEAD"
                  /\ sent' = <<>>
             ELSE /\ Head(loopback.to_inn).nonce \notin pool.nonces
                  /\ peer'[loopback.inn].state \in {"WAIT_VERACK", "DEAD"}]_vars
  /\ [](~cfg.self_connect => NoneConnected)

\* the inbound peer has read the version (its version field is set) while
\* the outbound peer waits for a version, and is closed
C11_Witness ==
  /\ ~cfg.self_connect
  /\ loopback.out \in PeerIds
  /\ loopback.inn \in PeerIds
  /\ peer[loopback.out].state = "WAIT_VERSION"
  /\ peer[loopback.out].sock = "open"
  /\ peer[loopback.inn].version # NULL
  /\ peer[loopback.inn].state = "DEAD"
  /\ peer[loopback.inn].sock = "closed"

(***************************************************************************)
(* C12.  A version read in WAIT_VERSION closes the peer, with no verack    *)
(* written and without WAIT_VERACK, when its version is below              *)
(* BTC_NET_MIN_VERSION, and for an outbound peer also when the NETWORK or  *)
(* the WITNESS service is missing or, with checkpoints enabled, its        *)
(* version is below BTC_NET_HEADERS_VERSION.  An inbound peer whose        *)
(* version is high enough and whose nonce is not one of the node is not    *)
(* closed, whatever its services: it goes to WAIT_VERACK unless the write  *)
(* of the answer fails.                                                    *)
(***************************************************************************)
\* version messages of every combination of services, with versions at
\* and below the two limits
AnyVersions ==
  [type : {"version"},
   version : {BTC_NET_HEADERS_VERSION - 1, BTC_NET_MIN_VERSION - 1,
              BTC_NET_MIN_VERSION, BTC_NET_COMPACT_WITNESS_VERSION},
   services : SUBSET {"NETWORK", "WITNESS"},
   no_relay : {FALSE}, nonce : 0 .. MaxNonce]

FatalVersion(p, m) ==
  \/ m.version < BTC_NET_MIN_VERSION
  \/ /\ peer[p].outbound
     /\ \/ "NETWORK" \notin m.services
        \/ "WITNESS" \notin m.services
        \/ cfg.checkpoints_enabled /\ m.version < BTC_NET_HEADERS_VERSION

\* the world after the pool reads message m from p
WorldAfter(p, m, F) == btc_peer_on_msg(World(F), p, m)

C12_FatalVersion ==
  \A p \in PeerIds :
    (~aborted /\ peer[p].live /\ peer[p].sock = "open"
       /\ peer[p].state = "WAIT_VERSION")
      => \A m \in AnyVersions, F \in {{}, {p}} :
           /\ FatalVersion(p, m)
                => /\ WorldAfter(p, m, F).peer[p].state = "DEAD"
                   /\ WorldAfter(p, m, F).peer[p].sock = "closed"
                   /\ \A i \in 1 .. Len(WorldAfter(p, m, F).sent) :
                        WorldAfter(p, m, F).sent[i].cmd # "verack"
           /\ (/\ ~peer[p].outbound
               /\ m.version >= BTC_NET_MIN_VERSION
               /\ (cfg.self_connect \/ m.nonce \notin pool.nonces)
               /\ F = {})
                => WorldAfter(p, m, F).peer[p].state = "WAIT_VERACK"

\* an outbound peer closed by a version without the WITNESS service next
\* to an inbound peer that sent such a version and waits for the verack
C12_Witness ==
  \E q \in pool.ids, r \in pool.ids :
    /\ peer[q].outbound
    /\ peer[q].state = "DEAD" /\ peer[q].sock = "closed"
    /\ peer[q].version = BTC_NET_COMPACT_WITNESS_VERSION
    /\ peer[q].services = {"NETWORK"}
    /\ ~peer[r].outbound
    /\ peer[r].state = "WAIT_VERACK"
    /\ peer[r].services = {"NETWORK"}

(***************************************************************************)
(* C13.  Whatever the chunks in which the bytes of a stream of well-formed *)
(* frames are read, the parser emits the message of every frame whose      *)
(* last byte has been read, in the order of the frames, once each and not  *)
(* before that byte; when the whole stream has been read it waits for the  *)
(* 24 bytes of a header, with no header latched and nothing pending.       *)
(* Well-formed here: written by btc_peer_send with the magic of the        *)
(* network, a command of 1 to 11 printable bytes and a body of at most     *)
(* MaxMessage bytes.                                                       *)
(***************************************************************************)
Printable(cmd) == \A k \in 1 .. Len(cmd) : cmd[k] >= 32 /\ cmd[k] <= 126

WellFormed(f, maxcmd) ==
  /\ Len(f.cmd) >= 1
  /\ Len(f.cmd) <= maxcmd
  /\ Printable(f.cmd)
  /\ Len(f.body) <= MaxMessage
  /\ f.bytes = btc_peer_send(Magic, f.cmd, f.body)

\* the number of bytes of the stream up to the end of frame i
EndOf(i) == Len(Stream(SubSeq(input.frames, 1, i)))

\* the frames whose last byte has been read
Complete == {i \in 1 .. Len(input.frames) : EndOf(i) <= input.fed}

\* the peer that reads the stream is open and has not been closed
Reading == input.p # NULL /\ peer[input.p].live /\ peer[input.p].state # "DEAD"

C13_Chunking ==
  (/\ Reading
   /\ \A i \in 1 .. Len(input.frames) :
        WellFormed(input.frames[i], CommandSize - 1))
    => /\ Len(emitted) = Cardinality(Complete)
       /\ \A i \in 1 .. Len(emitted) :
            /\ emitted[i].cmd = input.frames[i].cmd
            /\ emitted[i].body = input.frames[i].body
            /\ emitted[i].at >= EndOf(i)
       /\ input.fed = Len(Stream(input.frames))
            => /\ peer[input.p].parser.waiting = HeaderSize
               /\ ~peer[input.p].parser.has_header
               /\ peer[input.p].parser.pending = <<>>

\* two well-formed frames have been read to the end; the chunk that held
\* the last byte of the first frame ended inside the second frame
C13_Witness ==
  /\ Reading
  /\ Len(input.frames) = 2
  /\ \A i \in 1 .. 2 : WellFormed(input.frames[i], CommandSize - 1)
  /\ input.fed = Len(Stream(input.frames))
  /\ Len(emitted) = 2
  /\ emitted[1].at > EndOf(1)
  /\ emitted[1].at < EndOf(2)

(***************************************************************************)
(* C14.  When the last byte of a frame whose header is correct and whose   *)
(* payload does not match the checksum of the header is read, no message   *)
(* is emitted, the ban score of the peer grows by 10 and the peer is       *)
(* closed.                                                                 *)
(***************************************************************************)
\* the header of f is the header written for its command and body, the
\* payload has the length of the body and differs from it
BadChecksum(f) ==
  /\ Len(f.cmd) >= 1
  /\ Len(f.cmd) < CommandSize
  /\ Printable(f.cmd)
  /\ Len(f.body) <= MaxMessage
  /\ Len(f.bytes) = HeaderSize + Len(f.body)
  /\ SubSeq(f.bytes, 1, HeaderSize)
       = SubSeq(btc_peer_send(Magic, f.cmd, f.body), 1, HeaderSize)
  /\ SubSeq(f.bytes, HeaderSize + 1, Len(f.bytes)) # f.body

\* a step reads the last byte of a stream of one frame
ReadsLast ==
  /\ Reading
  /\ Len(input.frames) = 1
  /\ input.fed < Len(Stream(input.frames))
  /\ input'.fed = Len(Stream(input.frames))

C14_ChecksumCloses ==
  [][(ReadsLast /\ BadChecksum(input.frames[1]))
       => /\ emitted' = <<>>
          /\ peer'[input.p].ban_score = peer[input.p].ban_score + 10
          /\ peer'[input.p].state = "DEAD"]_vars

(***************************************************************************)
(* C15.  The frame btc_peer_send writes for a command of 1 to 12 printable *)
(* bytes and a body of at most MaxMessage bytes is accepted by the parser  *)
(* of a peer of the same network, which emits that command and that body.  *)
(***************************************************************************)
C15_RoundTrip ==
  (/\ Reading
   /\ Len(input.frames) = 1
   /\ WellFormed(input.frames[1], CommandSize)
   /\ input.fed = Len(Stream(input.frames)))
    => /\ Len(emitted) = 1
       /\ emitted[1].cmd = input.frames[1].cmd
       /\ emitted[1].body = input.frames[1].body

(***************************************************************************)
(* C16.  No sequence of messages of the remote peers makes a CHECK of a    *)
(* handler fail.  (With checkpoints the flag aborted is also set by the    *)
(* crash of a read of a destroyed header node, which is not a CHECK; the   *)
(* statement is about the scenarios without the headers chain.)            *)
(***************************************************************************)
C16_NoFailedCheck == ~cfg.checkpoints_enabled => ~aborted

(***************************************************************************)
(* C17.  In checkpoint mode, when a header of a message of the loader      *)
(* lands at the height of header_tip with another hash, the loader is      *)
(* closed, its ban score grows by 100 and its address is banned.           *)
(***************************************************************************)
\* the headers of m verify and link to header_tail and to each other, and
\* the one that lands at the height of header_tip has another hash
WrongCheckpoint(m) ==
  LET tail == pool.hdr[Len(pool.hdr)]
      tip == Checkpoints[pool.header_tip]
      n == Len(m.headers)
      hashOf(i) == btc_header_hash(m.headers[i].prev_block, m.headers[i].nonce)
  IN /\ n >= 1 /\ n <= MaxHeaders
     /\ \A i \in 1 .. n :
          /\ m.headers[i].valid
          /\ m.headers[i].prev_block = IF i = 1 THEN tail.hash ELSE hashOf(i - 1)
     /\ \E i \in 1 .. n :
          tail.height + i = tip.height /\ hashOf(i) # tip.hash

\* the loader is ready to read a headers message
LoaderReads(p) ==
  /\ ~aborted
  /\ peer[p].live /\ peer[p].sock = "open"
  /\ pool.checkpoints /\ peer[p].loader
  /\ pool.hdr # <<>>

C17_WrongCheckpointBans ==
  \A p \in pool.ids :
    LoaderReads(p) =>
      \A m \in [type : {"headers"}, headers : HeaderLists, ub : {NoUB}] :
        WrongCheckpoint(m) =>
          /\ WorldAfter(p, m, {}).peer[p].sock = "closed"
          /\ WorldAfter(p, m, {}).peer[p].ban_score = peer[p].ban_score + 100
          /\ peer[p].addr \in WorldAfter(p, m, {}).addrman.banned

(***************************************************************************)
(* C18.  In checkpoint mode, when the CONNECTED loader delivers a valid    *)
(* headers message that contains the checkpoint header_tip, header_head    *)
(* advances by one node, a getdata for the queued header nodes is sent to  *)
(* the loader and the loader stays connected, however many nodes are       *)
(* queued.                                                                 *)
(***************************************************************************)
\* the headers of m verify and link to header_tail and to each other, and
\* one of them is the checkpoint header_tip
CheckpointBatch(m) ==
  LET tail == pool.hdr[Len(pool.hdr)]
      tip == Checkpoints[pool.header_tip]
      n == Len(m.headers)
      hashOf(i) == btc_header_hash(m.headers[i].prev_block, m.headers[i].nonce)
  IN /\ n >= 1 /\ n <= MaxHeaders
     /\ \A i \in 1 .. n :
          /\ m.headers[i].valid
          /\ m.headers[i].prev_block = IF i = 1 THEN tail.hash ELSE hashOf(i - 1)
     /\ \E i \in 1 .. n :
          tail.height + i = tip.height /\ hashOf(i) = tip.hash

\* a getdata for blocks is among the messages written to p
BlocksRequested(w, p) ==
  \E i \in 1 .. Len(w.sent) :
    w.sent[i].cmd = "getdata" /\ w.sent[i].to = p

C18_CheckpointBatch ==
  \A p \in pool.ids :
    (LoaderReads(p) /\ peer[p].state = "CONNECTED") =>
      \A m \in [type : {"headers"}, headers : HeaderLists, ub : UBs] :
        CheckpointBatch(m) =>
          /\ ~WorldAfter(p, m, {}).aborted
          /\ Len(WorldAfter(p, m, {}).pool.hdr)
               = Len(pool.hdr) + Len(m.headers) - 1
          /\ Head(WorldAfter(p, m, {}).pool.hdr).height
               = Head(pool.hdr).height + 1
          /\ WorldAfter(p, m, {}).peer[p].state = "CONNECTED"
          /\ WorldAfter(p, m, {}).peer[p].sock = "open"
          /\ BlocksRequested(WorldAfter(p, m, {}), p)

(***************************************************************************)
(* C19.  When a cmpctblock of a peer in compact mode reaches the fill      *)
(* step and the mempool resolves every short id, the block goes to         *)
(* btc_chain_add with the VERIFY_BODY flags, no getblocktxn is written,    *)
(* the compact maps of the peer and the pool stay as they are, and when    *)
(* the chain accepts the block and is synced every CONNECTED peer that     *)
(* does not have the block gets an announcement of it.                     *)
(***************************************************************************)
\* p is CONNECTED in compact mode and reads from an open socket
CompactReads(p) ==
  /\ ~aborted
  /\ peer[p].live /\ peer[p].sock = "open"
  /\ peer[p].state = "CONNECTED"
  /\ cfg.bip152_enabled
  /\ btc_peer_has_compact_support(World({}), p)
  /\ btc_peer_has_compact(World({}), p)

\* the handler takes the compact block with hash h from p up to the fill
\* step: the block is not a duplicate and is requested or may be pushed
ReachesFill(p, h) ==
  /\ h \notin peer[p].compact_map
  /\ h \notin pool.compact_map
  /\ \/ h \in peer[p].block_map
     \/ cfg.block_mode = 1 /\ h \notin pool.block_map

\* compact blocks the mempool completes
FullCompacts == {CompactBlock(h, TRUE, 1, TRUE) : h \in CompactBlocks}

\* the chain takes block h onto the main chain
JoinsChain(h) ==
  /\ h \notin chain.known
  /\ h \notin chain.orphans
  /\ PrevOf(h) \in chain.known

\* an announcement of a block to q is among the messages msgs
Announced(msgs, q) ==
  \E i \in 1 .. Len(msgs) :
    /\ msgs[i].to = q
    /\ msgs[i].cmd \in {"cmpctblock", "headers", "inv_full"}

C19_CompactFull ==
  \A p \in pool.ids :
    CompactReads(p) =>
      \A m \in FullCompacts :
        ReachesFill(p, m.hash) =>
          /\ ~WorldAfter(p, m, {}).aborted
          /\ WorldAfter(p, m, {}).chain.flags = BTC_CHAIN_VERIFY_BODY
          /\ \A i \in 1 .. Len(WorldAfter(p, m, {}).sent) :
               WorldAfter(p, m, {}).sent[i].cmd # "getblocktxn"
          /\ WorldAfter(p, m, {}).pool.compact_map = pool.compact_map
          /\ WorldAfter(p, m, {}).peer[p].compact_map = peer[p].compact_map
          /\ m.hash \notin WorldAfter(p, m, {}).pool.block_map
          /\ (JoinsChain(m.hash) /\ WorldAfter(p, m, {}).chain.synced)
               => /\ m.hash \in WorldAfter(p, m, {}).chain.known
                  /\ \A q \in pool.ids :
                       (peer[q].state = "CONNECTED" /\ peer[q].sock = "open"
                          /\ m.hash \notin peer[q].inv_filter /\ q # p)
                         => /\ Announced(WorldAfter(p, m, {}).sent, q)
                            /\ m.hash \in WorldAfter(p, m, {}).peer[q].inv_filter

\* block 1 has joined the chain from a full compact block: the flags of
\* the last call are VERIFY_BODY, no partial block was ever stored for it
\* and the other peer has been told
C19_Witness ==
  /\ chain.flags = BTC_CHAIN_VERIFY_BODY
  /\ chain.tip = 1
  /\ pool.compact_map = {}
  /\ 1 \notin pool.block_map
  /\ \E q \in pool.ids : Announced(sent, q)
  /\ \A i \in 1 .. Len(sent) : sent[i].cmd # "getblocktxn"

(***************************************************************************)
(* C20.  A cmpctblock that reaches the fill step with transactions         *)
(* missing, from a peer below the limit on partial blocks, is stored in    *)
(* the compact maps of the peer and of the pool and a getblocktxn for it   *)
(* is written.  The blocktxn for a stored hash removes it from both maps;  *)
(* a full answer hands the block to btc_pool_add_block with VERIFY_BODY,   *)
(* a short one writes a getdata for the full block to the peer and adds    *)
(* 10 to its ban score.                                                    *)
(***************************************************************************)
\* compact blocks the mempool does not complete
PartialCompacts == {CompactBlock(h, TRUE, 1, FALSE) : h \in CompactBlocks}

\* answers to getblocktxn, full and short
BlockTxns == {BlockTxn("blocktxn", h, full) : h \in CompactBlocks,
                                              full \in BOOLEAN}

\* message cmd with the one hash h is among the messages msgs written to p
Wrote(msgs, p, cmd, h) ==
  \E i \in 1 .. Len(msgs) :
    msgs[i].to = p /\ msgs[i].cmd = cmd /\ msgs[i].arg = <<h>>

C20_CompactMissing ==
  \A p \in pool.ids :
    CompactReads(p) =>
      /\ \A m \in PartialCompacts :
           (/\ ReachesFill(p, m.hash)
            /\ Cardinality(peer[p].compact_map) < MaxCompact)
             => /\ ~WorldAfter(p, m, {}).aborted
                /\ WorldAfter(p, m, {}).pool.compact_map
                     = pool.compact_map \cup {m.hash}
                /\ WorldAfter(p, m, {}).peer[p].compact_map
                     = peer[p].compact_map \cup {m.hash}
                /\ Wrote(WorldAfter(p, m, {}).sent, p, "getblocktxn", m.hash)
                /\ WorldAfter(p, m, {}).chain = chain
      /\ \A m \in BlockTxns :
           m.hash \in peer[p].compact_map
             => /\ ~WorldAfter(p, m, {}).aborted
                /\ WorldAfter(p, m, {}).pool.compact_map
                     = pool.compact_map \ {m.hash}
                /\ WorldAfter(p, m, {}).peer[p].compact_map
                     = peer[p].compact_map \ {m.hash}
                /\ (m.full /\ m.hash \in peer[p].block_map)
                     => /\ WorldAfter(p, m, {}).chain.flags
                             = BTC_CHAIN_VERIFY_BODY
                        /\ m.hash \notin WorldAfter(p, m, {}).peer[p].block_map
                        /\ m.hash \notin WorldAfter(p, m, {}).pool.block_map
                /\ (m.full /\ m.hash \notin peer[p].block_map)
                     => WorldAfter(p, m, {}).peer[p].state = "DEAD"
                /\ ~m.full
                     => /\ Wrote(WorldAfter(p, m, {}).sent, p, "getdata",
                                 m.hash)
                        /\ WorldAfter(p, m, {}).peer[p].ban_score
                             = peer[p].ban_score + 10
                        /\ WorldAfter(p, m, {}).chain = chain

\* after a short answer for one block and a full answer for another: the
\* peer has ten points, a partial block is stored, and block 1 has joined
\* the chain with the VERIFY_BODY flags
C20_Witness ==
  \E q \in pool.ids :
    /\ peer[q].state = "CONNECTED"
    /\ peer[q].ban_score = 10
    /\ peer[q].compact_map # {}
    /\ peer[q].compact_map \subseteq pool.compact_map
    /\ 1 \notin pool.compact_map
    /\ chain.tip = 1
    /\ chain.flags = BTC_CHAIN_VERIFY_BODY

(***************************************************************************)
(* C21.  As stated: a peer that has completed the handshake and sends      *)
(* nothing more is closed once 60 seconds have passed since the last       *)
(* bytes were received from it (checked by the timer, so within one period *)
(* of the timer after the 60 seconds).                                     *)
(***************************************************************************)
C21_ClosedAfterMinute ==
  \A q \in pool.ids :
    peer[q].state = "CONNECTED" => now <= peer[q].last_recv + 60000 + Tick

(***************************************************************************)
(* C21, amended.  A CONNECTED peer has received and has been sent bytes,   *)
(* so the first-message test never closes it.  A silent CONNECTED peer is  *)
(* closed by the first run of the timer later than 20 minutes after the    *)
(* last receive, or earlier when its getheaders is older than 60 seconds   *)
(* or, on a chain that is not synced, its getblocks is older than 30       *)
(* seconds.  Every request of the pool's sets belongs to a registered      *)
(* peer, so none is left of a peer that has been disconnected.             *)
(***************************************************************************)
C21_ClosedAfterSilence ==
  /\ \A q \in pool.ids :
       peer[q].state = "CONNECTED" =>
         /\ peer[q].last_recv > 0 /\ peer[q].last_send > 0
         /\ now <= peer[q].last_recv + 20 * 60000
         /\ peer[q].gh_time # NULL => now <= peer[q].gh_time + 60000
         /\ (~chain.synced /\ peer[q].gb_time # NULL)
              => now <= peer[q].gb_time + 30000
  /\ pool.block_map = UNION {peer[q].block_map : q \in pool.ids}
  /\ pool.tx_map = UNION {peer[q].tx_map : q \in pool.ids}
  /\ pool.compact_map = UNION {peer[q].compact_map : q \in pool.ids}

\* a peer closed by the timer twenty minutes and one period after its
\* verack, the last bytes received from it, with a ping sent since
C21_Witness ==
  \E q \in pool.ids :
    /\ peer[q].state = "DEAD"
    /\ peer[q].version = BTC_NET_COMPACT_WITNESS_VERSION
    /\ peer[q].challenge # 0
    /\ peer[q].last_send > peer[q].last_recv
    /\ now = peer[q].last_recv + 20 * 60000 + Tick

(***************************************************************************)
(* C22.  A fault of one peer stays with that peer.  A message that closes  *)
(* its sender, and the disconnect of a registered peer, leave the state,   *)
(* the ban score and the block_map, tx_map and compact_map of every other  *)
(* registered peer as they were; the disconnect takes from the sets of the *)
(* pool exactly the hashes of the tables of the disconnected peer, all of  *)
(* which were in the sets.                                                 *)
(***************************************************************************)
SamePeer(w, q) ==
  /\ w.peer[q].state = peer[q].state
  /\ w.peer[q].ban_score = peer[q].ban_score
  /\ w.peer[q].block_map = peer[q].block_map
  /\ w.peer[q].tx_map = peer[q].tx_map
  /\ w.peer[q].compact_map = peer[q].compact_map

\* the message that leads to the world w closes its sender p
Closes(w, p) ==
  /\ peer[p].sock = "open"
  /\ peer[p].state # "DEAD"
  /\ w.peer[p].state = "DEAD"

C22_FaultIsolated ==
  /\ \A p \in pool.ids, F \in WFails :
       \A m \in MsgsOf(cfg, p) :
         LET w == WorldAfter(p, m, F)
         IN Closes(w, p) => \A q \in pool.ids \ ({p} \cup F) : SamePeer(w, q)
  /\ \A p \in pool.ids :
       LET w == btc_pool_on_disconnect(World({}), p)
       IN /\ ~w.aborted
          /\ \A q \in pool.ids \ {p} : SamePeer(w, q)
          /\ peer[p].block_map \subseteq pool.block_map
          /\ peer[p].tx_map \subseteq pool.tx_map
          /\ peer[p].compact_map \subseteq pool.compact_map
          /\ w.pool.block_map = pool.block_map \ peer[p].block_map
          /\ w.pool.tx_map = pool.tx_map \ peer[p].tx_map
          /\ w.pool.compact_map = pool.compact_map \ peer[p].compact_map

\* a peer closed for a fault and not yet disconnected, with a block
\* requested from it, while another peer has a request of its own
C22_Witness ==
  \E p \in pool.ids, q \in pool.ids :
    /\ p # q
    /\ peer[p].state = "DEAD"
    /\ peer[p].ban_score > 0
    /\ peer[p].block_map # {}
    /\ peer[q].state = "CONNECTED"
    /\ peer[q].block_map \cup peer[q].tx_map # {}

(***************************************************************************)
(* C23.  When the verack of an outbound peer completes its handshake while *)
(* the pool has no loader, and the writes to the peer succeed, the peer is *)
(* the loader afterwards and a getheaders or getblocks has been written to *)
(* it.  In every state the loader, and every peer with the loader flag, is *)
(* an outbound peer.                                                       *)
(***************************************************************************)
SyncSent(msgs, p) ==
  \E i \in 1 .. Len(msgs) :
    msgs[i].to = p /\ msgs[i].cmd \in {"getheaders", "getblocks"}

C23_OutboundBecomesLoader ==
  /\ \A p \in pool.ids :
       (/\ peer[p].outbound
        /\ peer[p].state = "WAIT_VERACK"
        /\ peer[p].sock = "open"
        /\ pool.load = NULL)
         => LET w == WorldAfter(p, [type |-> "verack"], {})
            IN /\ ~w.aborted
               /\ w.peer[p].state = "CONNECTED"
               /\ w.pool.load = p
               /\ w.peer[p].loader
               /\ w.peer[p].syncing
               /\ SyncSent(w.sent, p)
  /\ \A p \in PeerIds : peer[p].loader => peer[p].live /\ peer[p].outbound
  /\ pool.load # NULL => peer[pool.load].outbound

\* the second outbound peer has completed its handshake after the first
\* loader was removed, and is the loader that was asked to sync
C23_Witness ==
  /\ pool.list = <<1>>
  /\ pool.load = 1
  /\ peer[1].outbound /\ peer[1].loader /\ peer[1].syncing
  /\ peer[1].state = "CONNECTED"
  /\ SyncSent(sent, 1)
  /\ \E i \in 1 .. Len(sent) : sent[i].to = 1 /\ sent[i].cmd = "getaddr"

(***************************************************************************)
(* C24.  As stated: at the end of the handling of the loader's disconnect  *)
(* the first registered outbound peer in state CONNECTED, if there is one, *)
(* is the loader.                                                          *)
(***************************************************************************)
\* the outbound peers of the list of w in state CONNECTED, in list order
ConnectedOutbound(w) ==
  SelectSeq(w.pool.list,
            LAMBDA q : w.peer[q].outbound /\ w.peer[q].state = "CONNECTED")

C24_ReplacedInDisconnect ==
  \A p \in pool.ids :
    pool.load = p =>
      LET w == btc_pool_on_disconnect(World({}), p)
      IN ConnectedOutbound(w) # <<>> => w.pool.load = Head(ConnectedOutbound(w))

(***************************************************************************)
(* C24, amended.  The handling of the loader's disconnect leaves the pool  *)
(* without a loader.  The refill of the next pool tick, run while there is *)
(* no loader, makes the first outbound peer of the list the loader,        *)
(* whatever its state; if no outbound peer is registered it dials one new  *)
(* outbound peer, which is the loader, or leaves the pool without a loader *)
(* when no connection can be opened.                                       *)
(***************************************************************************)
C24_ReplacedByRefill ==
  /\ \A p \in pool.ids :
       pool.load = p =>
         LET w == btc_pool_on_disconnect(World({}), p)
         IN /\ w.pool.load = NULL
            /\ \A q \in PeerIds : ~w.peer[q].loader
  /\ pool.load = NULL =>
       \A w \in btc_pool_fill_outbound(World({})) :
         LET outs == SelectSeq(pool.list, LAMBDA q : peer[q].outbound)
         IN /\ ~w.aborted
            /\ outs # <<>> => w.pool.load = Head(outs)
            /\ outs = <<>> =>
                 \/ w.pool.load = NULL
                 \/ /\ w.pool.load \notin pool.ids
                    /\ w.pool.load \in w.pool.ids
                    /\ w.peer[w.pool.load].outbound
                    /\ w.peer[w.pool.load].state = "CONNECTING"
            /\ w.pool.load # NULL => w.peer[w.pool.load].loader

\* the loader has been disconnected: an outbound peer is registered and
\* CONNECTED, and the pool has no loader
C24_Witness ==
  /\ pool.load = NULL
  /\ \E q \in pool.ids : peer[q].outbound /\ peer[q].state = "CONNECTED"
                           /\ ~peer[q].loader

(***************************************************************************)
(* C25.  Whenever a step makes a different peer the loader while the       *)
(* headers chain is in use, the headers chain after the step is the single *)
(* node of the local chain tip, and header_tip is the first checkpoint     *)
(* above the tip.                                                          *)
(***************************************************************************)
\* the headers chain of w is the one btc_pool_reset_chain builds
ChainIsReset(w) ==
  /\ w.pool.hdr = <<btc_hdrentry_create(w.chain.tip, w.chain.height)>>
  /\ w.pool.header_tip = btc_pool_next_tip(w.chain.height)
  /\ w.pool.header_next = HNull

C25_ResetOnLoaderChange ==
  \A p \in pool.ids :
    LET w == WorldAfter(p, [type |-> "verack"], {})
    IN (/\ peer[p].sock = "open"
        /\ ~w.aborted
        /\ w.pool.load = p
        /\ pool.load # p
        /\ w.pool.checkpoints)
         => ChainIsReset(w)

(***************************************************************************)
(* C26.  The number of registered inbound peers, and the counter           *)
(* peers.inbound, never exceed max_inbound.                                *)
(***************************************************************************)
C26_InboundCapped ==
  /\ pool.inbound <= max_inbound
  /\ Cardinality({q \in pool.ids : ~peer[q].outbound}) <= max_inbound

(***************************************************************************)
(* C27.  The registered outbound peers never exceed max_outbound, and the  *)
(* counters peers.outbound and peers.inbound are the numbers of registered *)
(* outbound and inbound peers, after any sequence of refill ticks, addr    *)
(* messages, loader dials and disconnects.                                 *)
(***************************************************************************)
C27_OutboundCapped ==
  /\ Cardinality({q \in pool.ids : peer[q].outbound}) <= pool.max_outbound
  /\ pool.outbound = Cardinality({q \in pool.ids : peer[q].outbound})
  /\ pool.inbound = Cardinality({q \in pool.ids : ~peer[q].outbound})

\* the refill of an addr message has run at the cap: max_outbound is 1,
\* the loader is the one outbound peer, the address the message brought
\* is not connected to and a slot is free
C27_Witness ==
  /\ pool.max_outbound = 1
  /\ pool.outbound = 1
  /\ pool.load # NULL
  /\ peer[pool.load].state = "CONNECTED"
  /\ ~peer[pool.load].getting_addr
  /\ 2 \in peer[pool.load].addr_filter
  /\ Candidates(World({})) # {}
  /\ CanCreate(World({}))

(***************************************************************************)
(* C28.  On a synced chain the answer to getblocks is one inv of block     *)
(* hashes: the blocks of the main chain that follow the entry the locator  *)
(* finds, in chain order and without gaps, up to the block before the stop *)
(* hash and at most GetblocksChunk of them.  An answer of GetblocksChunk   *)
(* hashes sets hash_continue to the last of them; a shorter answer leaves  *)
(* hash_continue as it was.  On a chain that is not synced nothing is      *)
(* sent.                                                                   *)
(***************************************************************************)
\* the position on the main chain of the first locator hash that is on it,
\* the genesis block if none is
LocatorPosition(main, locator) ==
  LET on == {j \in 1 .. Len(locator) : locator[j] \in SeqToSet(main)}
  IN IF on = {} THEN 1
     ELSE CHOOSE i \in 1 .. Len(main) :
            \E j \in on : main[i] = locator[j] /\ \A k \in on : j <= k

C28_GetblocksAnswer ==
  \A p \in pool.ids, m \in GetblocksMsgs :
    (peer[p].state = "CONNECTED" /\ peer[p].sock = "open") =>
      LET w == btc_pool_on_getblocks_max(World({}), p, m, GetblocksChunk)
          main == PathTo(chain.tip)
          f == LocatorPosition(main, m.locator)
          before == {i \in (f + 1) .. Len(main) :
                       \A k \in (f + 1) .. i : main[k] # m.stop}
          n == Min(Cardinality(before), GetblocksChunk)
      IN IF ~chain.synced
         THEN w.sent = <<>> /\ w.peer[p] = peer[p]
         ELSE /\ Len(w.sent) = 1
              /\ w.sent[1].to = p /\ w.sent[1].cmd = "inv"
              /\ w.sent[1].types = [i \in 1 .. n |-> "block"]
              /\ w.sent[1].arg = [i \in 1 .. n |-> main[f + i]]
              /\ n = GetblocksChunk
                   => w.peer[p].hash_continue = main[f + GetblocksChunk]
              /\ n < GetblocksChunk
                   => w.peer[p].hash_continue = peer[p].hash_continue

\* an answer cut at GetblocksChunk hashes with more of the chain to come
C28_Witness ==
  /\ chain.tip = 15
  /\ \E i \in 1 .. Len(sent) :
       /\ sent[i].cmd = "inv"
       /\ sent[i].arg = <<1, 3>>
       /\ peer[sent[i].to].hash_continue = 3

(***************************************************************************)
(* C29.  Close is sticky.  For a registered peer in state DEAD, each of    *)
(* the handlers connect, data, message, parse error, drain, tick and       *)
(* socket error leaves the peer DEAD with its ban score, writes nothing    *)
(* and leaves the pool, the chain, the mempool and the address manager as  *)
(* they were.  When the first frame of a chunk closes the peer, the frame  *)
(* after it in the chunk is not dispatched.                                *)
(***************************************************************************)
\* the handler that led to w found p closed and did nothing
StaysClosed(w, p) ==
  /\ w.peer[p].state = "DEAD"
  /\ w.peer[p].ban_score = peer[p].ban_score
  /\ w.sent = <<>>
  /\ w.emitted = emitted
  /\ w.pool = pool /\ w.chain = chain /\ w.mempool = mempool
  /\ w.addrman = addrman

\* a frame that fails to parse, then a frame that is well-formed
BadThenGood == Frame(CmdBad, <<>>).bytes \o Frame(CmdOne, <<>>).bytes

C29_CloseSticky ==
  \A p \in pool.ids :
    /\ peer[p].state = "DEAD" =>
         /\ StaysClosed(btc_peer_on_connect(World({}), p), p)
         /\ StaysClosed(btc_peer_on_data(World({}), p, BadThenGood), p)
         /\ \A m \in BanMsgs : StaysClosed(btc_peer_on_msg(World({}), p, m), p)
         /\ StaysClosed(btc_peer_on_parse_error(World({}), p), p)
         /\ StaysClosed(btc_peer_on_drain(World({}), p), p)
         /\ StaysClosed(btc_peer_on_tick(World({}), p, TRUE), p)
         /\ StaysClosed(btc_peer_on_error(World({}), p), p)
    /\ (peer[p].state # "DEAD" /\ peer[p].sock = "open") =>
         LET w == btc_peer_on_data(World({}), p, BadThenGood)
         IN w.peer[p].state = "DEAD" => w.emitted = emitted

(***************************************************************************)
(* C30.  A block message whose hash is not in the block_map of its sender  *)
(* closes the sender and does nothing else: the chain is not called.  A    *)
(* block message whose hash is in the block_map of its sender is handed to *)
(* the chain, and the hash is in neither the sender's nor the pool's       *)
(* block_map afterwards.  The same holds for a tx message, the tx_map      *)
(* tables and the mempool.                                                 *)
(***************************************************************************)
\* the world before the message, with no call of the chain recorded
Uncalled == [World({}) EXCEPT !.chain.flags = "none"]

C30_RequestedOnly ==
  \A p \in pool.ids :
    (peer[p].state # "DEAD" /\ peer[p].sock = "open") =>
      \A m \in {x \in MsgsOf(cfg, p) : x.type \in {"block", "tx"}} :
        LET w == btc_peer_on_msg(Uncalled, p, m)
            h == m.hash
        IN IF m.type = "block"
           THEN IF h \notin peer[p].block_map
                THEN w = btc_peer_close(Uncalled, p)
                ELSE /\ h \in pool.block_map
                     /\ w.chain.flags = BTC_CHAIN_DEFAULT_FLAGS
                     /\ h \notin w.peer[p].block_map
                     /\ h \notin w.pool.block_map
           ELSE IF h \notin peer[p].tx_map
                THEN w = btc_peer_close(Uncalled, p)
                ELSE /\ h \in pool.tx_map
                     /\ ~w.aborted
                     /\ h \in w.mempool.txs \cup w.mempool.orphans
                                \cup w.mempool.rejects
                     /\ h \notin w.peer[p].tx_map
                     /\ h \notin w.pool.tx_map

\* block 1 was requested from a peer, has arrived and is the tip of the
\* chain, and no request for it is left
C30_Witness ==
  /\ chain.flags = BTC_CHAIN_DEFAULT_FLAGS
  /\ chain.tip = 1
  /\ 1 \notin pool.block_map
  /\ \A q \in pool.ids : 1 \notin peer[q].block_map
  /\ \E q \in pool.ids : peer[q].state = "CONNECTED" /\ peer[q].block_time = now

(***************************************************************************)
(* C31.  A notfound message takes the listed items the sender has          *)
(* outstanding out of the table of the sender and the set of the pool, and *)
(* an item the sender does not have outstanding closes the sender and      *)
(* leaves the tables of the other peers and their entries of the pool as   *)
(* they were.                                                              *)
(***************************************************************************)
\* the table an item is looked up in
TableOf(item) ==
  IF item.type \in TxTypes THEN "tx"
  ELSE IF item.type \in BlockTypes THEN "block"
  ELSE "none"

\* the hashes of the items of table t among the first n items
Listed(items, n, t) ==
  {items[i].hash : i \in {j \in 1 .. n : TableOf(items[j]) = t}}

\* the tables of the other peers, and their entries of the pool, are as
\* before
OthersKept(w, p) ==
  \A q \in pool.ids \ {p} :
    /\ SamePeer(w, q)
    /\ peer[q].block_map \subseteq w.pool.block_map
    /\ peer[q].tx_map \subseteq w.pool.tx_map

\* C31 as stated: every listed item that is outstanding at the sender when
\* the message arrives is removed, whatever else the message lists
C31_NotfoundRemovesListed ==
  \A p \in pool.ids :
    \A l \in NotfoundLists :
      (peer[p].sock = "open" /\ peer[p].state # "DEAD") =>
        LET w == WorldAfter(p, [type |-> "notfound", items |-> l], {})
            n == Len(l)
        IN /\ w.peer[p].block_map =
                peer[p].block_map \ Listed(l, n, "block")
           /\ w.peer[p].tx_map = peer[p].tx_map \ Listed(l, n, "tx")
           /\ w.pool.block_map =
                pool.block_map \ (peer[p].block_map \cap Listed(l, n, "block"))
           /\ w.pool.tx_map =
                pool.tx_map \ (peer[p].tx_map \cap Listed(l, n, "tx"))
           /\ (\E i \in 1 .. n : ~CanResolveItem(World({}), p, l[i])) =>
                (Closes(w, p) /\ OthersKept(w, p))

\* item i of the list is resolved when the loop reaches it: it is
\* outstanding at the sender and no earlier item of the list took it
Resolves(p, l, i) ==
  /\ CanResolveItem(World({}), p, l[i])
  /\ \A j \in 1 .. (i - 1) :
       TableOf(l[j]) # TableOf(l[i]) \/ l[j].hash # l[i].hash

\* the number of items the loop resolves before it returns
Resolved(p, l) ==
  CHOOSE n \in 0 .. Len(l) :
    /\ \A i \in 1 .. n : Resolves(p, l, i)
    /\ n < Len(l) => ~Resolves(p, l, n + 1)

\* C31, amended: the items are taken in the order of the list.  The items
\* before the first one that is not outstanding at the sender (unknown
\* type, not requested from the sender, or listed before in the message)
\* are removed from the table of the sender and the set of the pool; that
\* item closes the sender, and the items after it stay in the table of
\* the sender and in the set of the pool.  A list of distinct outstanding
\* items leaves the sender open.  The other peers keep their tables and
\* their entries of the pool.
C31_NotfoundInOrder ==
  \A p \in pool.ids :
    \A l \in NotfoundLists :
      (peer[p].sock = "open" /\ peer[p].state # "DEAD") =>
        LET w == WorldAfter(p, [type |-> "notfound", items |-> l], {})
            n == Resolved(p, l)
        IN /\ ~w.aborted
           /\ w.peer[p].block_map =
                peer[p].block_map \ Listed(l, n, "block")
           /\ w.peer[p].tx_map = peer[p].tx_map \ Listed(l, n, "tx")
           /\ w.pool.block_map = pool.block_map \ Listed(l, n, "block")
           /\ w.pool.tx_map = pool.tx_map \ Listed(l, n, "tx")
           /\ Closes(w, p) <=> n < Len(l)
           /\ n = Len(l) => w.peer[p].state = peer[p].state
           /\ OthersKept(w, p)

\* a peer closed by a notfound that named an item it was not asked for:
\* the block requested from it and listed after that item is still in its
\* table and in the set of the pool, and the other peer is CONNECTED with
\* the request for the transaction
C31_Witness ==
  \E p \in pool.ids, q \in pool.ids :
    /\ p # q
    /\ peer[p].state = "DEAD"
    /\ peer[p].closed
    /\ 3 \in peer[p].block_map
    /\ 1 \notin pool.block_map
    /\ 1 \in peer[p].inv_filter
    /\ 3 \in pool.block_map
    /\ peer[q].state = "CONNECTED"
    /\ 101 \in peer[q].tx_map

(***************************************************************************)
(* C32.  An addr, inv, getdata or headers message longer than its limit    *)
(* adds 100 to the ban score of the sender, which closes it and bans its   *)
(* address, and none of its items is processed.                            *)
(***************************************************************************)
\* p is closed and banned with 100 more on its score
Banned(w, p) ==
  /\ w.peer[p].ban_score = peer[p].ban_score + 100
  /\ w.peer[p].state = "DEAD"
  /\ w.peer[p].closed
  /\ peer[p].addr \in w.addrman.banned

\* no address was inserted, no request registered, no item queued, no
\* header appended, nothing noted in a filter and nothing written
Unprocessed(w) ==
  /\ w.addrman.addrs \subseteq addrman.addrs
  /\ w.pool.block_map = pool.block_map
  /\ w.pool.tx_map = pool.tx_map
  /\ w.pool.hdr = pool.hdr
  /\ w.pool.header_next = pool.header_next
  /\ w.sent = <<>>
  /\ \A q \in pool.ids :
       /\ w.peer[q].block_map = peer[q].block_map
       /\ w.peer[q].tx_map = peer[q].tx_map
       /\ w.peer[q].sending = peer[q].sending
       /\ w.peer[q].inv_filter = peer[q].inv_filter
       /\ w.peer[q].addr_filter = peer[q].addr_filter

\* the peers that can send a message
Senders == {p \in pool.ids : peer[p].sock = "open" /\ peer[p].state # "DEAD"}

LongInvGetdata ==
  \A p \in Senders :
    /\ LET w == WorldAfter(p, [type |-> "inv", items |-> LongInv], {})
       IN Banned(w, p) /\ Unprocessed(w)
    /\ LET w == WorldAfter(p, [type |-> "getdata", items |-> LongGetdata,
                               intact |-> TRUE], {})
       IN Banned(w, p) /\ Unprocessed(w)

LongAddrBans ==
  \A p \in Senders :
    \A w \in btc_pool_on_addr(World({}), p,
                              [type |-> "addr", items |-> LongAddr]) :
      Banned(w, p) /\ Unprocessed(w)

\* C32 as stated: the long headers message bans whoever sends it
C32_OversizeBans ==
  /\ LongInvGetdata
  /\ LongAddrBans
  /\ \A p \in Senders :
       LET w == WorldAfter(p, [type |-> "headers", headers |-> LongHeaders,
                               ub |-> NoUB], {})
       IN Banned(w, p) /\ Unprocessed(w)

\* C32, amended: the long addr, inv and getdata messages ban any sender.
\* The long headers message bans the sender when the pool is in
\* checkpoint mode and the sender is the loader; from any other peer, or
\* outside checkpoint mode, it is dropped like every headers message:
\* the score and the state of the sender stay as they were.  In all cases
\* no item of the message is processed.
C32_OversizeBansLoader ==
  /\ LongInvGetdata
  /\ LongAddrBans
  /\ \A p \in Senders :
       LET w == WorldAfter(p, [type |-> "headers", headers |-> LongHeaders,
                               ub |-> NoUB], {})
       IN /\ Unprocessed(w)
          /\ IF pool.checkpoints /\ peer[p].loader THEN Banned(w, p)
             ELSE /\ w.peer[p].ban_score = peer[p].ban_score
                  /\ w.peer[p].state = peer[p].state
                  /\ w.addrman = addrman

\* the loader was banned in checkpoint mode after a headers message, with
\* the headers chain as it was set up and nothing requested, and the
\* inbound peer, not banned, has had a headers message dropped
C32_Witness ==
  \E p \in pool.ids, q \in pool.ids :
    /\ pool.checkpoints
    /\ peer[p].loader
    /\ peer[p].gh_time = NULL
    /\ peer[p].ban_score = 100
    /\ peer[p].state = "DEAD"
    /\ peer[p].addr \in addrman.banned
    /\ Len(pool.hdr) = 1
    /\ pool.block_map = {}
    /\ q # p
    /\ peer[q].state # "DEAD"
    /\ peer[q].ban_score = 0
    /\ peer[q].addr \notin addrman.banned

(***************************************************************************)
(* C33.  No peer has more than MaxCompact (15 in the program) partial      *)
(* compact blocks in its compact_map.  A compact block that cannot be      *)
(* completed from the mempool and reaches a peer that holds that many      *)
(* closes the peer and is stored neither in the compact_map of the peer    *)
(* nor in that of the pool.  The block is one requested from the peer or   *)
(* from no peer: a compact block requested from another peer fails a CHECK *)
(* before the limit is looked at.                                          *)
(***************************************************************************)
\* a compact block that passes the checks and is short of transactions
ShortCompacts == {CompactBlock(h, TRUE, 1, FALSE) : h \in CompactBlocks}

C33_CompactLimit ==
  /\ \A q \in PeerIds : Cardinality(peer[q].compact_map) <= MaxCompact
  /\ \A p \in pool.ids, F \in WFails, m \in ShortCompacts :
       (/\ ~aborted
        /\ peer[p].sock = "open"
        /\ peer[p].state # "DEAD"
        /\ Cardinality(peer[p].compact_map) >= MaxCompact
        /\ m.hash \notin pool.compact_map
        /\ m.hash \in peer[p].block_map \/ m.hash \notin pool.block_map)
         => LET w == WorldAfter(p, m, F)
            IN /\ w.peer[p].state = "DEAD"
               /\ w.peer[p].closed
               /\ m.hash \notin w.peer[p].compact_map
               /\ m.hash \notin w.pool.compact_map
               /\ w.pool.compact_map = pool.compact_map

\* a peer at the limit was closed by one more partial block: the block is
\* registered as requested from it and not as a partial block
C33_Witness ==
  \E p \in pool.ids :
    /\ peer[p].state = "DEAD"
    /\ peer[p].ban_score = 0
    /\ Cardinality(peer[p].compact_map) = MaxCompact
    /\ \E h \in peer[p].block_map :
         h \notin peer[p].compact_map /\ h \notin pool.compact_map

(***************************************************************************)
(* C34.  For a peer above the pong version, btc_peer_send_ping issues a    *)
(* random nonce that is not zero as the challenge and records last_ping;   *)
(* while a challenge is open it sends nothing and leaves challenge and     *)
(* last_ping as they are; a pong with the nonce of the challenge clears    *)
(* it, a pong with another nonce that is not zero leaves it open.          *)
(***************************************************************************)
\* the peers a ping goes to with a challenge
Pinged ==
  {p \in pool.ids : /\ peer[p].state = "CONNECTED"
                    /\ peer[p].sock = "open"
                    /\ peer[p].version > BTC_NET_PONG_VERSION}

\* the world after btc_peer_send_ping to p with the draw n
PingAfter(p, n) == btc_peer_send_ping([World({}) EXCEPT !.rnd = n], p)

\* with a challenge open nothing is sent and nothing changes
PingHeldBack ==
  \A p \in Pinged, n \in PingNonces :
    peer[p].challenge # 0 =>
      LET w == PingAfter(p, n)
      IN /\ w.sent = <<>>
         /\ w.peer[p].challenge = peer[p].challenge
         /\ w.peer[p].last_ping = peer[p].last_ping

\* the pong with the nonce of the challenge clears it, the pong with
\* another nonce that is not zero leaves it open
PongAnswers ==
  \A p \in Pinged, n \in PingNonces :
    peer[p].challenge # 0 =>
      LET w == WorldAfter(p, [type |-> "pong", nonce |-> n], {})
      IN /\ n = peer[p].challenge => w.peer[p].challenge = 0
         /\ (n # peer[p].challenge /\ n # 0) =>
              /\ w.peer[p].challenge = peer[p].challenge
              /\ w.peer[p].last_ping = peer[p].last_ping

\* the ping sent with no challenge open carries the nonce drawn, which is
\* the challenge afterwards, and last_ping is the time of the call
PingIssued(p, n) ==
  LET w == PingAfter(p, n)
  IN /\ w.peer[p].challenge = n
     /\ w.peer[p].last_ping = now
     /\ w.sent = <<[to |-> p, cmd |-> "ping", types |-> <<>>, arg |-> <<n>>]>>

\* C34 as stated: whatever btc_nonce draws, the challenge is not zero
\* after a ping was sent with none open
C34_PingChallenge ==
  /\ PingHeldBack
  /\ PongAnswers
  /\ \A p \in Pinged, n \in PingNonces :
       peer[p].challenge = 0 =>
         (PingIssued(p, n) /\ PingAfter(p, n).peer[p].challenge # 0)

\* the claim for the draws that are not zero
C34_PingNonzeroDraw ==
  /\ PingHeldBack
  /\ PongAnswers
  /\ \A p \in Pinged, n \in PingNonces \ {0} :
       peer[p].challenge = 0 => PingIssued(p, n)

(***************************************************************************)
(* C35.  A peer that has not reached CONNECTED is closed by the first run  *)
(* of the timer later than 5 seconds after its connect time (the time of   *)
(* the dial, set again when the socket connects, or the time of the        *)
(* accept): a run of the timer closes every peer in CONNECTING,            *)
(* WAIT_VERSION or WAIT_VERACK whose connect time is more than 5 seconds   *)
(* back and leaves the others in their state, so no peer is in one of      *)
(* these states later than that.                                           *)
(***************************************************************************)
Handshaking == {"CONNECTING", "WAIT_VERSION", "WAIT_VERACK"}

C35_HandshakeLimit ==
  /\ \A q \in pool.ids :
       peer[q].state \in Handshaking => now <= peer[q].time + 5000
  /\ \A q \in pool.ids :
       peer[q].state \in Handshaking =>
         LET w == PeersOnTick([World({}) EXCEPT !.now = now + ShortTick],
                              {}, 1)
         IN IF now + ShortTick > peer[q].time + 5000
            THEN w.peer[q].state = "DEAD" /\ w.peer[q].closed
            ELSE w.peer[q].state = peer[q].state

\* one peer was closed by the timer before it sent its version, five
\* seconds and one period after its connect time, while the other, whose
\* socket connected later, has sent its version and is exactly five
\* seconds old
C35_Witness ==
  \E p \in pool.ids, q \in pool.ids :
    /\ peer[p].state = "DEAD"
    /\ peer[p].version = NULL
    /\ now = peer[p].time + 5000 + ShortTick
    /\ peer[q].state = "WAIT_VERACK"
    /\ now = peer[q].time + 5000


\* the limit of the stall check on the last send and the last receive
SilenceLimit == 20 * 60000

\* the factor of the stall check for peer p
Mult(p) == IF peer[p].version <= BTC_NET_PONG_VERSION THEN 4 ELSE 1

\* the times at which the timer may run next when nothing is sent to
\* peer p and nothing is received from it until then
LaterTimes == {now + k * LongTick : k \in 1 .. MaxLongTicks}

\* the stall check of peer p at time t closes it
ClosedAt(p, t) ==
  btc_peer_maybe_timeout([World({}) EXCEPT !.now = t], p, FALSE)
    .peer[p].state = "DEAD"

\* the ping of peer p has been unanswered for more than the limit at t
PingOverdue(p, t) ==
  peer[p].challenge # 0 /\ t > peer[p].last_ping + SilenceLimit

\* the peers the stall check of the scenario examines
Checked ==
  {p \in pool.ids : peer[p].state = "CONNECTED" /\ peer[p].sock = "open"}

\* C36 as stated: with the chain synced and no request outstanding, the
\* stall check closes a CONNECTED peer exactly when nothing has been sent
\* to it for 20 minutes times the factor, or nothing has been received
\* from it for 20 minutes times the factor, or its ping is overdue; the
\* factor is 4 for a peer of PONG_VERSION or below.
C36_BothLimitsTimesFour ==
  \A p \in Checked, t \in LaterTimes :
    ClosedAt(p, t) <=>
      \/ t > peer[p].last_send + SilenceLimit * Mult(p)
      \/ t > peer[p].last_recv + SilenceLimit * Mult(p)
      \/ PingOverdue(p, t)

\* C36 amended: the stall check closes a CONNECTED peer exactly when
\* nothing has been sent to it for 20 minutes, whatever its version, or
\* nothing has been received from it for 20 minutes (80 minutes for a
\* peer of PONG_VERSION or below), or its ping is overdue; and no peer
\* stays CONNECTED past one of these limits.
C36_ReceiveLimitTimesFour ==
  /\ \A p \in Checked, t \in LaterTimes :
       ClosedAt(p, t) <=>
         \/ t > peer[p].last_send + SilenceLimit
         \/ t > peer[p].last_recv + SilenceLimit * Mult(p)
         \/ PingOverdue(p, t)
  /\ \A p \in Checked :
       /\ now <= peer[p].last_send + SilenceLimit
       /\ now <= peer[p].last_recv + SilenceLimit * Mult(p)

\* a peer of PONG_VERSION that was sent a ping at this run of the timer
\* is closed by it, more than 80 minutes after its last message
C36_Witness ==
  \E p \in pool.ids :
    /\ peer[p].state = "DEAD"
    /\ peer[p].version <= BTC_NET_PONG_VERSION
    /\ peer[p].last_send = now
    /\ now > peer[p].last_recv + 4 * SilenceLimit


\* the events of peer p that run btc_peer_flush_data: the queue as the
\* flush finds it, whether the socket holds what is written, and the
\* world after the event
ServeEvents(p) ==
  {[kind |-> "drain", queue |-> peer[p].sending, held |-> p \in H,
    w |-> btc_peer_on_drain([World({}) EXCEPT !.peer[p].buffered = 0,
                                              !.held = H], p)] :
     H \in {G \in Helds : peer[p].buffered > 0}}
  \cup
  {[kind |-> "tick", queue |-> peer[p].sending, held |-> p \in H,
    w |-> btc_peer_on_tick([World({}) EXCEPT !.now = now + ShortTick,
                                             !.held = H], p, FALSE)] :
     H \in Helds}
  \cup
  {[kind |-> "getdata", queue |-> peer[p].sending \o x[1].items,
    held |-> p \in x[2],
    w |-> btc_peer_on_msg([World({}) EXCEPT !.held = x[2]], p, x[1])] :
     x \in {y \in ServeMsgs \X Helds :
              Len(peer[p].sending) + Len(y[1].items) <= MaxServeQueue}}

\* the hashes of the blocks written to p, in the order written
DataOf(msgs, p) ==
  LET IsData(m) == m.to = p /\ m.cmd \in {"block", "cmpctblock", "tx"}
      S == SelectSeq(msgs, IsData)
  IN [i \in 1 .. Len(S) |-> S[i].arg[1]]

\* the notfound messages written to p
NotfoundsOf(msgs, p) ==
  LET IsNotfound(m) == m.to = p /\ m.cmd = "notfound"
  IN SelectSeq(msgs, IsNotfound)

\* the hashes of the notfound entries written to p, in the order written
NotfoundOf(msgs, p) ==
  LET S == NotfoundsOf(msgs, p)
  IN IF S = <<>> THEN <<>> ELSE S[1].arg

\* the hashes of the items of the list l the node has, or has not
HashesOf(l, has) ==
  LET Pick(i) == (i.hash \in chain.known) = has
      S == SelectSeq(l, Pick)
  IN [i \in 1 .. Len(S) |-> S[i].hash]

\* event e of p has answered the first k items of the queue, each once
\* and in the order of the queue, and left the others queued
AnsweredTo(p, e, k) ==
  /\ e.w.peer[p].sending = SubSeq(e.queue, k + 1, Len(e.queue))
  /\ DataOf(e.w.sent, p) = HashesOf(SubSeq(e.queue, 1, k), TRUE)
  /\ NotfoundOf(e.w.sent, p) = HashesOf(SubSeq(e.queue, 1, k), FALSE)
  /\ Len(NotfoundsOf(e.w.sent, p)) <= 1

\* the bytes the loop of event e counted before the k-th item and after it
CountedBefore(p, e, k) ==
  LET found == e.queue[k].hash \in chain.known
  IN e.w.peer[p].buffered - (IF found /\ e.held THEN DataSize ELSE 0)
       + (Len(NotfoundOf(e.w.sent, p)) - (IF found THEN 0 ELSE 1))
           * NotfoundSize

CountedAfter(p, e) ==
  e.w.peer[p].buffered + Len(NotfoundOf(e.w.sent, p)) * NotfoundSize

\* C37: every event that serves the queue of a peer answers the items at
\* the head of the queue, each once, the data in the order of the queue
\* and the items not found in one notfound message in the order of the
\* queue, and leaves the other items queued in their order; it answers
\* none before the peer is CONNECTED; it stops at the first item before
\* which the bytes buffered plus 36 bytes for each item not found so far
\* have reached 10 MiB, and not before; the drain event answers at least
\* one item of a queue that is not empty, and so does the tick when the
\* buffer is below the limit.
C37_ServedInOrder ==
  \A p \in pool.ids :
    (peer[p].sock = "open" /\ peer[p].state # "DEAD") =>
      \A e \in ServeEvents(p) :
        IF peer[p].state # "CONNECTED"
        THEN e.w.peer[p].state # "DEAD" => AnsweredTo(p, e, 0)
        ELSE e.w.peer[p].state = "CONNECTED" =>
               \E k \in 0 .. Len(e.queue) :
                 /\ AnsweredTo(p, e, k)
                 /\ k < Len(e.queue) => CountedAfter(p, e) >= ServeLimit
                 /\ k > 0 => CountedBefore(p, e, k) < ServeLimit
                 /\ (e.kind = "drain" /\ e.queue # <<>>) => k > 0
                 /\ (e.kind = "tick" /\ e.queue # <<>>
                       /\ peer[p].buffered < ServeLimit) => k > 0

\* a flush has stopped with a block left in the queue: the buffer of the
\* socket is below 10 MiB and the item not found, answered in the same
\* step, made up the difference
C37_Witness ==
  \E p \in pool.ids :
    /\ peer[p].state = "CONNECTED"
    /\ peer[p].sending # <<>>
    /\ peer[p].buffered < ServeLimit
    /\ Len(NotfoundOf(sent, p)) > 0
    /\ DataOf(sent, p) # <<>>
    /\ peer[p].buffered + Len(NotfoundOf(sent, p)) * NotfoundSize
         >= ServeLimit


\* the blocks at the height of the last checkpoint that a peer sends
LastBlocks ==
  {m \in CheckpointMsgs :
     m.type = "block" /\ HeightOf(m.hash) = last_checkpoint}

\* p is the loader, in checkpoint mode, and block m that it sends has been
\* asked of it and joins the chain
LastArrives(p, m) ==
  /\ pool.checkpoints
  /\ peer[p].loader
  /\ peer[p].state = "CONNECTED"
  /\ peer[p].sock = "open"
  /\ m.hash \in peer[p].block_map
  /\ ChainAccepts(World({}), m)
  /\ PrevOf(m.hash) \in chain.known

\* a message with command cmd is among the messages msgs
WroteAny(msgs, cmd) == \E i \in 1 .. Len(msgs) : msgs[i].cmd = cmd

\* getblocks with a locator from h and no stop hash is among the messages
\* msgs written to p
WroteGetblocks(msgs, p, h) ==
  \E i \in 1 .. Len(msgs) :
    msgs[i].to = p /\ msgs[i].cmd = "getblocks" /\ msgs[i].arg = <<h, NULL>>

\* C38: when the loader sends the block at the height of the last
\* checkpoint and the chain accepts it, checkpoint mode ends in that step:
\* the headers chain is empty (head, tail, next and tip), the checkpoints
\* flag is off, and the loader is sent getblocks from that block and no
\* getheaders; and while the flag is on, an inv of blocks from any peer
\* makes the node write no getdata and no getblocks.
C38_CheckpointsDisengage ==
  /\ \A p \in pool.ids, m \in LastBlocks :
       LastArrives(p, m) =>
         LET w == WorldAfter(p, m, {})
         IN /\ ~w.aborted
            /\ ~w.pool.checkpoints
            /\ w.pool.hdr = <<>>
            /\ w.pool.header_next = HNull
            /\ w.pool.header_tip = 0
            /\ WroteGetblocks(w.sent, p, m.hash)
            /\ ~WroteAny(w.sent, "getheaders")
  /\ \A p \in pool.ids, m \in BlockInvs :
       (pool.checkpoints /\ peer[p].sock = "open") =>
         LET w == WorldAfter(p, m, {})
         IN /\ ~WroteAny(w.sent, "getdata")
            /\ ~WroteAny(w.sent, "getblocks")

\* C38 amended: the same, for a block of the last checkpoint that is at the
\* head of the headers chain when it arrives (as it is when the loader has
\* sent the headers of each stretch only when asked); when another node
\* is at the head, the loader is closed ("header hash mismatch") and
\* checkpoint mode stays on.
C38_DisengageAtHead ==
  /\ \A p \in pool.ids, m \in LastBlocks :
       LastArrives(p, m) =>
         LET w == WorldAfter(p, m, {})
         IN IF pool.hdr # <<>> /\ Head(pool.hdr).hash = m.hash
            THEN /\ ~w.aborted
                 /\ ~w.pool.checkpoints
                 /\ w.pool.hdr = <<>>
                 /\ w.pool.header_next = HNull
                 /\ w.pool.header_tip = 0
                 /\ WroteGetblocks(w.sent, p, m.hash)
                 /\ ~WroteAny(w.sent, "getheaders")
                 /\ w.peer[p].state = "CONNECTED"
            ELSE /\ pool.hdr # <<>>
                 /\ w.peer[p].state = "DEAD"
                 /\ w.pool.checkpoints
                 /\ w.sent = <<>>
  /\ \A p \in pool.ids, m \in BlockInvs :
       (pool.checkpoints /\ peer[p].sock = "open") =>
         LET w == WorldAfter(p, m, {})
         IN /\ ~WroteAny(w.sent, "getdata")
            /\ ~WroteAny(w.sent, "getblocks")

\* checkpoint mode has ended in this step: the block of the last
\* checkpoint is the tip of the chain and the loader has been sent
\* getblocks
C38_Witness ==
  /\ cfg.checkpoints_enabled
  /\ ~pool.checkpoints
  /\ pool.hdr = <<>>
  /\ chain.tip = Checkpoints[Len(Checkpoints)].hash
  /\ \E p \in pool.ids : peer[p].loader /\ WroteAny(sent, "getblocks")


\* the peers that have not completed the handshake and can be read from
Early ==
  {p \in pool.ids : /\ peer[p].state \in {"WAIT_VERSION", "WAIT_VERACK"}
                    /\ peer[p].sock = "open"}

\* the commands of the messages the request m of p makes the node write
\* to p
AnswersTo(p, m) ==
  LET msgs == WorldAfter(p, m, {}).sent
  IN {msgs[i].cmd : i \in {j \in 1 .. Len(msgs) : msgs[j].to = p}}

\* C39: a request (ping, getaddr, getblocks, getheaders, mempool,
\* getblocktxn, getdata) of a peer in WAIT_VERSION or WAIT_VERACK makes
\* the node write nothing to that peer, and its getdata items stay queued.
C39_QuietBeforeConnected ==
  \A p \in Early, m \in EarlyRequests :
    /\ AnswersTo(p, m) = {}
    /\ m.type = "getdata" =>
         WorldAfter(p, m, {}).peer[p].sending = peer[p].sending \o m.items

\* the getdata of a peer that has not completed the handshake is queued
\* and not served, and no request of such a peer closes it or is fatal
C39_GetdataWaits ==
  \A p \in Early, m \in EarlyRequests :
    /\ ~WorldAfter(p, m, {}).aborted
    /\ m.type = "getdata" =>
         /\ AnswersTo(p, m) = {}
         /\ WorldAfter(p, m, {}).peer[p].sending = peer[p].sending \o m.items


\* the last step was a call of the generator that returned
Called == rng.out.api # "none"

\* every call seeds the state when it has not been started or holds
\* another process id, and only then; no process seeds twice
SeedsWhenStale ==
  /\ Called => (rng.out.seeded <=> rng.out.stale)
  /\ \A q \in Procs : rng.seedings[q] <= 1

\* C40: every call of btc_random, btc_uniform, btc_nonce or btc_getrandom
\* seeds the state first when it has not been started or holds the id of
\* another process, and only then, so a process seeds at most once; and
\* the state a call draws from was seeded by the calling process.
C40_ForkSafe ==
  /\ SeedsWhenStale
  /\ Called => rng.out.by = rng.out.proc

\* the part of C40 that holds: the seeding rule, and at most one seeding
\* in each process; and the state a call draws from was seeded by the
\* caller or by a process that held the id the caller holds
C40_SeedsPerProcessId ==
  /\ SeedsWhenStale
  /\ Called => \/ rng.out.by = rng.out.proc
               \/ rng.pid[rng.out.by] = rng.pid[rng.out.proc]

====
